---- MODULE Spec2Model ----
(***************************************************************************)
(* Model of the tower-defence simulation core (src/game/engine.ts, first   *)
(* listing of src/unnamed/part_002) together with path.ts, maps.ts and the *)
(* archetype tables of config.ts.                                          *)
(*                                                                         *)
(* Numbers are fixed point: seconds are milliseconds (ms), board distances *)
(* are milli-cells (mc), health and damage are milli-hit-points, the slow  *)
(* multiplier is per-mille (1000 = full speed), fire rate is milli-hertz.  *)
(* Entity ids `E${n}`, `T${n}`, `P${n}`, `FX${n}` are formatted from a     *)
(* counter by an injective template; the model keeps the number n.         *)
(* Purely cosmetic fields (colour, shape, radius, labels) are left out.    *)
(***************************************************************************)
EXTENDS Integers, Sequences, FiniteSets, TLC

VARIABLES state, ticks, commands

vars == <<state, ticks, commands>>

(***************************************************************************)
(* Bounds of the exploration.                                              *)
(***************************************************************************)
MaxTicks == 4

MaxCommands == 1

MaxBuildTicks == 3

MaxBuildCommands == 2

\* elapsed-seconds values the host passes to tickGame (ms); 0 and a negative
\* value exercise the early return.
DeltaSet == {-250, 0, 250, 1000, 20000}

\* elapsed-seconds values of the opening (ms)
BuildDeltaSet == {0, 250, 20000}

\* tower ids the host may name in a command
TowerIdSet == {1, 2, 3}

\* what the host may try to build: every archetype on a free cell next to
\* the route, a second beam tower on another free cell, and attempts on a
\* route cell, on the cell of the map's initial tower and off the board
PlaceInputs ==
    {[cell |-> [col |-> 2, row |-> 2], towerTypeId |-> "pulse"],
     [cell |-> [col |-> 2, row |-> 2], towerTypeId |-> "lance"],
     [cell |-> [col |-> 2, row |-> 2], towerTypeId |-> "laser"],
     [cell |-> [col |-> 1, row |-> 2], towerTypeId |-> "laser"],
     [cell |-> [col |-> 1, row |-> 4], towerTypeId |-> "pulse"],
     [cell |-> [col |-> 2, row |-> 6], towerTypeId |-> "lance"],
     [cell |-> [col |-> 12, row |-> 0], towerTypeId |-> "pulse"],
     [cell |-> [col |-> 2, row |-> -1], towerTypeId |-> "laser"]}

(***************************************************************************)
(* config.ts                                                               *)
(***************************************************************************)
STARTING_MONEY == 160

STARTING_LIVES == 20

INTER_WAVE_DELAY_SECONDS == 2500

MAX_TOWER_LEVEL == 3

\* multipliers in percent
TOWER_UPGRADE_COST_MULTIPLIERS == <<65, 95>>

\* percent
TOWER_SELL_REFUND_RATIO == 70

TOWER_LEVEL_RANGE_BONUS == 10

TOWER_LEVEL_FIRE_RATE_BONUS == 12

TOWER_LEVEL_PROJECTILE_SPEED_BONUS == 8

TOWER_LEVEL_DAMAGE_BONUS == 45

ENEMY_TYPES == [spark |-> [id |-> "spark", maxHealth |-> 24000, speed |-> 1500, reward |-> 10, coreDamage |-> 1], block |-> [id |-> "block", maxHealth |-> 52000, speed |-> 1000, reward |-> 16, coreDamage |-> 2], spike |-> [id |-> "spike", maxHealth |-> 34000, speed |-> 1300, reward |-> 13, coreDamage |-> 1]]

\* attackKind, splashRadius, slowMultiplier and slowDuration are optional in
\* TowerType; the two archetypes of config.ts leave them undefined, which the
\* engine treats as a plain projectile tower (0 stands for undefined).
CONFIG_TOWER_TYPES ==
    [pulse |-> [id |-> "pulse", attackKind |-> "projectile", range |-> 2300, fireRate |-> 1350,
                projectileSpeed |-> 7000, damage |-> 16, cost |-> 55, splashRadius |-> 0,
                slowMultiplier |-> 0, slowDuration |-> 0],
     lance |-> [id |-> "lance", attackKind |-> "projectile", range |-> 3000, fireRate |-> 750,
                projectileSpeed |-> 9000, damage |-> 34, cost |-> 85, splashRadius |-> 0,
                slowMultiplier |-> 0, slowDuration |-> 0]]

\* The archetypes of the other attack kinds (TowerTypeId 'laser' of types.ts)
\* are in a later config.ts than the one at hand; the beam tower is taken
\* from the specification's description of a continuous-beam archetype, its
\* damage being damage per second.
BEAM_TOWER_TYPES ==
    [laser |-> [id |-> "laser", attackKind |-> "beam", range |-> 2300, fireRate |-> 1000,
                projectileSpeed |-> 0, damage |-> 20, cost |-> 70, splashRadius |-> 0,
                slowMultiplier |-> 0, slowDuration |-> 0]]

TowerTypeIds == (DOMAIN CONFIG_TOWER_TYPES) \cup (DOMAIN BEAM_TOWER_TYPES)

TOWER_TYPES ==
    [id \in TowerTypeIds |->
        IF id \in DOMAIN CONFIG_TOWER_TYPES THEN CONFIG_TOWER_TYPES[id] ELSE BEAM_TOWER_TYPES[id]]

(***************************************************************************)
(* engine.ts constants                                                     *)
(***************************************************************************)
TARGET_MODE_ORDER == <<"first", "last", "strong">>

\* -PI/2 : the unit vector pointing up; an aim angle atan2(dy, dx) is kept as
\* the vector (dx, dy) it is computed from
DEFAULT_TOWER_AIM_ANGLE == [dx |-> 0, dy |-> -1]

BEAM_FIRE_EVENT_INTERVAL_SECONDS == 120

HIT_EVENT_BUDGET == 3

FIRE_EVENT_BUDGET == 4

IMPACT_EFFECT_BUDGET == 8

\* durations of EFFECT_PRESETS (ms)
EFFECT_PRESETS == [spawn |-> 450, hit |-> 220, place |-> 300, upgrade |-> 340, sell |-> 360, splash |-> 340, chill |-> 420]

(***************************************************************************)
(* generic helpers                                                         *)
(***************************************************************************)
Max(a, b) == IF a >= b THEN a ELSE b

Min(a, b) == IF a <= b THEN a ELSE b

Abs(a) == IF a >= 0 THEN a ELSE -a

Sign(a) == IF a > 0 THEN 1 ELSE IF a < 0 THEN -1 ELSE 0

\* Math.round on a ratio num/den (den > 0, num >= 0): nearest, halves up
RoundDiv(num, den) == (2 * num + den) \div (2 * den)

RECURSIVE SqrtSearch(_, _, _)
SqrtSearch(n, lo, hi) ==
    IF lo >= hi THEN lo
    ELSE LET mid == (lo + hi + 1) \div 2
         IN IF mid * mid <= n THEN SqrtSearch(n, mid, hi) ELSE SqrtSearch(n, lo, mid - 1)

\* floor of the square root, for 0 <= n < 2^30
Sqrt(n) == SqrtSearch(n, 0, 32767)

\* Math.hypot, truncated to whole milli-cells
Hypot(dx, dy) == Sqrt(dx * dx + dy * dy)

\* division truncating toward zero, for the signed components of a direction
QuotTrunc(a, b) == Sign(a) * (Abs(a) \div b)

SeqToSet(s) == {s[i] : i \in 1..Len(s)}

RECURSIVE SumSeq(_)
SumSeq(s) == IF s = <<>> THEN 0 ELSE Head(s) + SumSeq(Tail(s))

(***************************************************************************)
(* path.ts                                                                 *)
(***************************************************************************)
cellCenter(cell) == [x |-> cell.col * 1000 + 500, y |-> cell.row * 1000 + 500]

isCellInBounds(cell, cols, rows) == cell.col >= 0 /\ cell.col < cols /\ cell.row >= 0 /\ cell.row < rows

\* cells of the segment start -> end, both ends included
SegmentCells(start, end) ==
    LET colStep == Sign(end.col - start.col)
        rowStep == Sign(end.row - start.row)
        steps == Max(Abs(end.col - start.col), Abs(end.row - start.row))
    IN {[col |-> start.col + colStep * k, row |-> start.row + rowStep * k] : k \in 0..steps}

\* a thrown Error is a record with the one field error
Throw(message) == [error |-> message]

Threw(result) == DOMAIN result = {"error"}

\* expandPathCells without the test of line 32
expandPathCells_AnyDirection(waypoints) ==
    [cells |-> UNION {SegmentCells(waypoints[i], waypoints[i + 1]) : i \in 1..(Len(waypoints) - 1)}]

\* the set of cells expandPathCells lists (the order of the list is used only
\* for drawing)
expandPathCells(waypoints) ==
    IF \E i \in 1..(Len(waypoints) - 1) :
          waypoints[i].col # waypoints[i + 1].col /\ waypoints[i].row # waypoints[i + 1].row
    THEN Throw("Path segments must be horizontal or vertical")
    ELSE [cells |-> UNION {SegmentCells(waypoints[i], waypoints[i + 1]) : i \in 1..(Len(waypoints) - 1)}]

buildPolylineData(waypoints) ==
    IF Len(waypoints) < 2 THEN Throw("Path requires at least 2 waypoints")
    ELSE LET points == [i \in 1..Len(waypoints) |-> cellCenter(waypoints[i])]
             segmentLengths == [i \in 1..(Len(waypoints) - 1) |->
                                  Hypot(points[i + 1].x - points[i].x, points[i + 1].y - points[i].y)]
         IN [points |-> points, segmentLengths |-> segmentLengths,
             totalLength |-> SumSeq(segmentLengths)]

\* the segment walk interpolating with the distance from the route's start
\* in place of the distance into the segment
RECURSIVE SampleWalk_FromRouteStart(_, _, _, _)
SampleWalk_FromRouteStart(polyline, distance, segmentIndex, walked) ==
    IF segmentIndex > Len(polyline.segmentLengths) THEN polyline.points[Len(polyline.points)]
    ELSE LET segmentLength == polyline.segmentLengths[segmentIndex]
         IN IF walked + segmentLength >= distance
            THEN LET from == polyline.points[segmentIndex]
                     to == polyline.points[segmentIndex + 1]
                     segmentDistance == distance
                 IN [x |-> from.x + QuotTrunc((to.x - from.x) * segmentDistance, segmentLength),
                     y |-> from.y + QuotTrunc((to.y - from.y) * segmentDistance, segmentLength)]
            ELSE SampleWalk_FromRouteStart(polyline, distance, segmentIndex + 1, walked + segmentLength)

RECURSIVE SampleWalk(_, _, _, _)
SampleWalk(polyline, distance, segmentIndex, walked) ==
    IF segmentIndex > Len(polyline.segmentLengths) THEN polyline.points[Len(polyline.points)]
    ELSE LET segmentLength == polyline.segmentLengths[segmentIndex]
         IN IF walked + segmentLength >= distance
            THEN LET from == polyline.points[segmentIndex]
                     to == polyline.points[segmentIndex + 1]
                     segmentDistance == distance - walked
                 IN [x |-> from.x + QuotTrunc((to.x - from.x) * segmentDistance, segmentLength),
                     y |-> from.y + QuotTrunc((to.y - from.y) * segmentDistance, segmentLength)]
            ELSE SampleWalk(polyline, distance, segmentIndex + 1, walked + segmentLength)

samplePolyline(polyline, distance) ==
    IF distance <= 0 THEN polyline.points[1]
    ELSE IF distance >= polyline.totalLength THEN polyline.points[Len(polyline.points)]
    ELSE SampleWalk(polyline, distance, 1, 0)

(***************************************************************************)
(* maps.ts                                                                 *)
(***************************************************************************)
MAP_DEFINITIONS ==
    [relay |-> [id |-> "relay", cols |-> 12, rows |-> 8, pathWaypoints |-> <<[col |-> 0, row |-> 4], [col |-> 3, row |-> 4], [col |-> 3, row |-> 1], [col |-> 8, row |-> 1], [col |-> 8, row |-> 6], [col |-> 11, row |-> 6]>>, initialTowers |-> <<[towerType |-> "pulse", cell |-> [col |-> 2, row |-> 6]]>>],
     switchback |-> [id |-> "switchback", cols |-> 12, rows |-> 8, pathWaypoints |-> <<[col |-> 0, row |-> 1], [col |-> 4, row |-> 1], [col |-> 4, row |-> 5], [col |-> 1, row |-> 5], [col |-> 1, row |-> 7], [col |-> 10, row |-> 7], [col |-> 10, row |-> 2], [col |-> 11, row |-> 2]>>, initialTowers |-> <<[towerType |-> "pulse", cell |-> [col |-> 2, row |-> 3]]>>]]

ensureMapCellsInBounds(map) ==
    IF \E i \in 1..Len(map.pathWaypoints) : ~isCellInBounds(map.pathWaypoints[i], map.cols, map.rows)
    THEN Throw("Map has waypoint out of bounds")
    ELSE IF \E i \in 1..Len(map.initialTowers) : ~isCellInBounds(map.initialTowers[i].cell, map.cols, map.rows)
    THEN Throw("Map has initial tower out of bounds")
    ELSE [ok |-> TRUE]

\* loadMap from the definition on: the first statement that throws ends it
loadMapDefinition(definition) ==
    LET inBounds == ensureMapCellsInBounds(definition)
        pathCells == expandPathCells(definition.pathWaypoints)
        route == buildPolylineData(definition.pathWaypoints)
    IN IF Threw(inBounds) THEN inBounds
       ELSE IF Threw(pathCells) THEN pathCells
       ELSE IF Threw(route) THEN route
       ELSE [id |-> definition.id, cols |-> definition.cols, rows |-> definition.rows,
             pathWaypoints |-> definition.pathWaypoints, initialTowers |-> definition.initialTowers,
             pathCellKeys |-> pathCells.cells,
             route |-> route]

loadMap(mapId) == loadMapDefinition(MAP_DEFINITIONS[mapId])

LOADED_MAP_CACHE == [mapId \in DOMAIN MAP_DEFINITIONS |-> loadMap(mapId)]

loadGameMap(mapId) == LOADED_MAP_CACHE[mapId]

(***************************************************************************)
(* levels.ts : a level is a GameLevelDefinition.  The exploration plays    *)
(* short levels of the relay map: drill (two sparks, then one block, three *)
(* lives), within a few ticks of both terminal states, and two one-wave    *)
(* levels for the spawn burst and for a column of enemies under fire.      *)
(***************************************************************************)
LEVEL_DEFINITIONS ==
    [drill |-> [id |-> "drill", mapId |-> "relay", startingMoney |-> 0, startingLives |-> 3,
                waves |-> <<[enemyType |-> "spark", count |-> 2, spawnInterval |-> 900, startDelay |-> 0],
                            [enemyType |-> "block", count |-> 1, spawnInterval |-> 850, startDelay |-> 500]>>],
     \* one wave of ten sparks a tenth of a second apart
     burst |-> [id |-> "burst", mapId |-> "relay", startingMoney |-> 0, startingLives |-> 0,
                waves |-> <<[enemyType |-> "spark", count |-> 10, spawnInterval |-> 100, startDelay |-> 0]>>],
     \* one wave of three blocks, 0.8 s apart
     column |-> [id |-> "column", mapId |-> "relay", startingMoney |-> 0, startingLives |-> 0,
                 waves |-> <<[enemyType |-> "block", count |-> 3, spawnInterval |-> 800, startDelay |-> 0]>>],
     \* one wave of two sparks on the switchback map
     junction |-> [id |-> "junction", mapId |-> "switchback", startingMoney |-> 0, startingLives |-> 0,
                   waves |-> <<[enemyType |-> "spark", count |-> 2, spawnInterval |-> 900, startDelay |-> 1000]>>]]

loadGameLevel(levelId) == LEVEL_DEFINITIONS[levelId]

(***************************************************************************)
(* engine.ts : helpers                                                     *)
(***************************************************************************)
\* events.push({id, type, towerType}); the caller adds 1 to nextEventId
appendEvent(events, nextEventId, type, towerType) ==
    Append(events, [id |-> nextEventId, type |-> type, towerType |-> towerType])

createEffect(kind, position, nextEffectId) ==
    [id |-> nextEffectId, kind |-> kind, position |-> position, age |-> 0,
     duration |-> EFFECT_PRESETS[kind]]

createEnemy(enemyTypeId, nextEnemyId, map) ==
    LET template == ENEMY_TYPES[enemyTypeId]
    IN [id |-> nextEnemyId, enemyType |-> template.id, speed |-> template.speed,
        reward |-> template.reward, coreDamage |-> template.coreDamage,
        maxHealth |-> template.maxHealth, health |-> template.maxHealth,
        progress |-> 0, position |-> samplePolyline(map.route, 0),
        slowMultiplier |-> 1000, slowTimeRemaining |-> 0]

\* isBetterTarget letting a candidate that ties on both keys replace the incumbent
isBetterTarget_TieReplaces(candidate, incumbent, targetMode) ==
    IF targetMode = "first"
    THEN IF candidate.progress # incumbent.progress
         THEN candidate.progress > incumbent.progress
         ELSE candidate.health >= incumbent.health
    ELSE IF targetMode = "last"
    THEN IF candidate.progress # incumbent.progress
         THEN candidate.progress < incumbent.progress
         ELSE candidate.health >= incumbent.health
    ELSE IF candidate.health # incumbent.health
         THEN candidate.health > incumbent.health
         ELSE candidate.progress >= incumbent.progress

\* incumbent is never null here: selectTarget handles the empty case
isBetterTarget(candidate, incumbent, targetMode) ==
    IF targetMode = "first"
    THEN IF candidate.progress # incumbent.progress
         THEN candidate.progress > incumbent.progress
         ELSE candidate.health > incumbent.health
    ELSE IF targetMode = "last"
    THEN IF candidate.progress # incumbent.progress
         THEN candidate.progress < incumbent.progress
         ELSE candidate.health > incumbent.health
    ELSE IF candidate.health # incumbent.health
         THEN candidate.health > incumbent.health
         ELSE candidate.progress > incumbent.progress

RECURSIVE SelectLoop(_, _, _, _, _, _)
SelectLoop(enemies, towerPosition, rangeSquared, targetMode, i, best) ==
    IF i > Len(enemies) THEN best
    ELSE LET enemy == enemies[i]
             dx == enemy.position.x - towerPosition.x
             dy == enemy.position.y - towerPosition.y
             distanceSquared == dx * dx + dy * dy
             better == IF best = 0 THEN TRUE
                       ELSE isBetterTarget(enemy, enemies[best], targetMode)
         IN IF distanceSquared > rangeSquared
            THEN SelectLoop(enemies, towerPosition, rangeSquared, targetMode, i + 1, best)
            ELSE SelectLoop(enemies, towerPosition, rangeSquared, targetMode, i + 1,
                            IF better THEN i ELSE best)

\* index of the chosen enemy in the list, 0 for null
selectTarget(enemies, towerCell, towerStats, targetMode) ==
    SelectLoop(enemies, cellCenter(towerCell), towerStats.range * towerStats.range,
               targetMode, 1, 0)

createInitialTowers(map) ==
    [index \in 1..Len(map.initialTowers) |->
        [id |-> index, towerType |-> map.initialTowers[index].towerType,
         cell |-> map.initialTowers[index].cell, level |-> 1, targetMode |-> "first",
         cooldown |-> 0, aimAngle |-> DEFAULT_TOWER_AIM_ANGLE]]

\* state.towers.find(...): the list of matches; empty for undefined
findTower(s, towerId) == SelectSeq(s.towers, LAMBDA tower : tower.id = towerId)

getTowerStats(tower) ==
    LET baseTowerType == TOWER_TYPES[tower.towerType]
        levelOffset == Max(0, tower.level - 1)
    IN [baseTowerType EXCEPT
          !.range = (baseTowerType.range * (100 + TOWER_LEVEL_RANGE_BONUS * levelOffset)) \div 100,
          !.fireRate = (baseTowerType.fireRate * (100 + TOWER_LEVEL_FIRE_RATE_BONUS * levelOffset)) \div 100,
          !.projectileSpeed = (baseTowerType.projectileSpeed * (100 + TOWER_LEVEL_PROJECTILE_SPEED_BONUS * levelOffset)) \div 100,
          !.damage = 1000 * RoundDiv(baseTowerType.damage * (100 + TOWER_LEVEL_DAMAGE_BONUS * levelOffset), 100)]

\* number | null : the one-element list of the cost, or the empty list for null
getTowerUpgradeCost(tower) ==
    IF tower.level >= MAX_TOWER_LEVEL THEN <<>>
    ELSE IF tower.level > Len(TOWER_UPGRADE_COST_MULTIPLIERS) THEN <<>>
    ELSE <<RoundDiv(TOWER_TYPES[tower.towerType].cost * TOWER_UPGRADE_COST_MULTIPLIERS[tower.level], 100)>>

\* totals t for which the double product t * 0.7 lies just below a half that
\* the exact product t * 7 / 10 reaches, so that Math.round goes down
\* (85 * 0.7 = 59.49999999999999, 165 * 0.7 = 115.49999999999999)
RefundHalfBelow == {85, 165}

RECURSIVE TotalInvested(_, _, _)
TotalInvested(cost, level, towerLevel) ==
    IF level >= towerLevel THEN 0
    ELSE (IF level <= Len(TOWER_UPGRADE_COST_MULTIPLIERS)
          THEN RoundDiv(cost * TOWER_UPGRADE_COST_MULTIPLIERS[level], 100) ELSE 0)
         + TotalInvested(cost, level + 1, towerLevel)

\* the sell value refunding all that was invested in the tower
getTowerSellValue_FullRefund(tower) ==
    LET baseTowerType == TOWER_TYPES[tower.towerType]
    IN Max(1, baseTowerType.cost + TotalInvested(baseTowerType.cost, 1, tower.level))

getTowerSellValue(tower) ==
    LET baseTowerType == TOWER_TYPES[tower.towerType]
        totalInvested == baseTowerType.cost + TotalInvested(baseTowerType.cost, 1, tower.level)
        rounded == IF totalInvested \in RefundHalfBelow
                   THEN (totalInvested * TOWER_SELL_REFUND_RATIO) \div 100
                   ELSE RoundDiv(totalInvested * TOWER_SELL_REFUND_RATIO, 100)
    IN Max(1, rounded)

createInitialGameState(levelId) ==
    LET level == loadGameLevel(levelId)
        map == loadGameMap(level.mapId)
    IN [mapId |-> level.mapId, levelId |-> level.id, status |-> "running", elapsed |-> 0,
        money |-> IF level.startingMoney # 0 THEN level.startingMoney ELSE STARTING_MONEY,
        lives |-> IF level.startingLives # 0 THEN level.startingLives ELSE STARTING_LIVES,
        waveIndex |-> 0, spawnedInWave |-> 0,
        timeUntilWaveStart |-> IF Len(level.waves) > 0 THEN level.waves[1].startDelay ELSE 0,
        timeUntilNextSpawn |-> 0, enemies |-> <<>>, towers |-> createInitialTowers(map),
        projectiles |-> <<>>, beams |-> <<>>, effects |-> <<>>, recentEvents |-> <<>>,
        nextEnemyId |-> 1, nextTowerId |-> Len(map.initialTowers) + 1,
        nextProjectileId |-> 1, nextEffectId |-> 1, nextEventId |-> 1]

(***************************************************************************)
(* engine.ts : commands                                                    *)
(***************************************************************************)
\* canPlaceTower without the check of the player's money
canPlaceTower_IgnoresMoney(s, cell, towerTypeId) ==
    IF s.status # "running" THEN FALSE
    ELSE LET map == loadGameMap(s.mapId)
         IN IF ~isCellInBounds(cell, map.cols, map.rows) THEN FALSE
            ELSE IF cell \in map.pathCellKeys THEN FALSE
            ELSE ~\E i \in 1..Len(s.towers) :
                       s.towers[i].cell.col = cell.col /\ s.towers[i].cell.row = cell.row

\* canPlaceTower without the check that no tower stands on the cell
canPlaceTower_IgnoresOccupancy(s, cell, towerTypeId) ==
    IF s.status # "running" THEN FALSE
    ELSE LET map == loadGameMap(s.mapId)
         IN IF ~isCellInBounds(cell, map.cols, map.rows) THEN FALSE
            ELSE IF cell \in map.pathCellKeys THEN FALSE
            ELSE s.money >= TOWER_TYPES[towerTypeId].cost

\* canPlaceTower without the check of the map's path cells
canPlaceTower_IgnoresPath(s, cell, towerTypeId) ==
    IF s.status # "running" THEN FALSE
    ELSE LET map == loadGameMap(s.mapId)
         IN IF ~isCellInBounds(cell, map.cols, map.rows) THEN FALSE
            ELSE IF \E i \in 1..Len(s.towers) :
                       s.towers[i].cell.col = cell.col /\ s.towers[i].cell.row = cell.row
                 THEN FALSE
            ELSE s.money >= TOWER_TYPES[towerTypeId].cost

canPlaceTower(s, cell, towerTypeId) ==
    IF s.status # "running" THEN FALSE
    ELSE LET map == loadGameMap(s.mapId)
         IN IF ~isCellInBounds(cell, map.cols, map.rows) THEN FALSE
            ELSE IF cell \in map.pathCellKeys THEN FALSE
            ELSE IF \E i \in 1..Len(s.towers) :
                       s.towers[i].cell.col = cell.col /\ s.towers[i].cell.row = cell.row
                 THEN FALSE
            ELSE s.money >= TOWER_TYPES[towerTypeId].cost

\* placeTower numbering the new tower by the length of the tower list
placeTower_IdFromCount(s, cell, towerTypeId) ==
    IF ~canPlaceTower(s, cell, towerTypeId) THEN s
    ELSE LET towerType == TOWER_TYPES[towerTypeId]
             nextTower == [id |-> Len(s.towers) + 1, towerType |-> towerTypeId, cell |-> cell,
                           level |-> 1, targetMode |-> "first", cooldown |-> 0,
                           aimAngle |-> DEFAULT_TOWER_AIM_ANGLE]
             nextEvents == appendEvent(<<>>, s.nextEventId, "place", "none")
             placeEffect == createEffect("place", cellCenter(cell), s.nextEffectId)
         IN [s EXCEPT !.money = s.money - towerType.cost,
                      !.towers = Append(s.towers, nextTower),
                      !.effects = Append(s.effects, placeEffect),
                      !.recentEvents = nextEvents,
                      !.nextTowerId = Len(s.towers) + 2,
                      !.nextEffectId = s.nextEffectId + 1,
                      !.nextEventId = s.nextEventId + 1]

placeTower(s, cell, towerTypeId) ==
    IF ~canPlaceTower(s, cell, towerTypeId) THEN s
    ELSE LET towerType == TOWER_TYPES[towerTypeId]
             nextTower == [id |-> s.nextTowerId, towerType |-> towerTypeId, cell |-> cell,
                           level |-> 1, targetMode |-> "first", cooldown |-> 0,
                           aimAngle |-> DEFAULT_TOWER_AIM_ANGLE]
             nextEvents == appendEvent(<<>>, s.nextEventId, "place", "none")
             placeEffect == createEffect("place", cellCenter(cell), s.nextEffectId)
         IN [s EXCEPT !.money = s.money - towerType.cost,
                      !.towers = Append(s.towers, nextTower),
                      !.effects = Append(s.effects, placeEffect),
                      !.recentEvents = nextEvents,
                      !.nextTowerId = s.nextTowerId + 1,
                      !.nextEffectId = s.nextEffectId + 1,
                      !.nextEventId = s.nextEventId + 1]

\* canUpgradeTower without the check of the player's money
canUpgradeTower_IgnoresMoney(s, towerId) ==
    IF s.status # "running" THEN FALSE
    ELSE LET found == findTower(s, towerId)
         IN IF found = <<>> THEN FALSE
            ELSE getTowerUpgradeCost(found[1]) # <<>>

canUpgradeTower(s, towerId) ==
    IF s.status # "running" THEN FALSE
    ELSE LET found == findTower(s, towerId)
         IN IF found = <<>> THEN FALSE
            ELSE LET upgradeCost == getTowerUpgradeCost(found[1])
                 IN upgradeCost # <<>> /\ s.money >= upgradeCost[1]

\* upgradeTower without the upgrade effect
upgradeTower_NoEffect(s, towerId) ==
    IF ~canUpgradeTower(s, towerId) THEN s
    ELSE LET found == findTower(s, towerId)
         IN IF found = <<>> THEN s
            ELSE LET tower == found[1]
                     upgradeCost == getTowerUpgradeCost(tower)
                 IN IF upgradeCost = <<>> THEN s
                    ELSE [s EXCEPT
                            !.money = s.money - upgradeCost[1],
                            !.towers = [i \in 1..Len(s.towers) |->
                                          IF s.towers[i].id = towerId
                                          THEN [s.towers[i] EXCEPT !.level = s.towers[i].level + 1]
                                          ELSE s.towers[i]],
                            !.recentEvents = appendEvent(<<>>, s.nextEventId, "upgrade", "none"),
                            !.nextEventId = s.nextEventId + 1]

upgradeTower(s, towerId) ==
    IF ~canUpgradeTower(s, towerId) THEN s
    ELSE LET found == findTower(s, towerId)
         IN IF found = <<>> THEN s
            ELSE LET tower == found[1]
                     upgradeCost == getTowerUpgradeCost(tower)
                 IN IF upgradeCost = <<>> THEN s
                    ELSE [s EXCEPT
                            !.money = s.money - upgradeCost[1],
                            !.towers = [i \in 1..Len(s.towers) |->
                                          IF s.towers[i].id = towerId
                                          THEN [s.towers[i] EXCEPT !.level = s.towers[i].level + 1]
                                          ELSE s.towers[i]],
                            !.effects = Append(s.effects, createEffect("upgrade", cellCenter(tower.cell), s.nextEffectId)),
                            !.recentEvents = appendEvent(<<>>, s.nextEventId, "upgrade", "none"),
                            !.nextEffectId = s.nextEffectId + 1,
                            !.nextEventId = s.nextEventId + 1]

\* sellTower leaving the sold tower's projectiles in flight
sellTower_KeepsProjectiles(s, towerId) ==
    IF s.status # "running" THEN s
    ELSE LET found == findTower(s, towerId)
         IN IF found = <<>> THEN s
            ELSE LET tower == found[1]
                     sellValue == getTowerSellValue(tower)
                 IN [s EXCEPT
                       !.money = s.money + sellValue,
                       !.towers = SelectSeq(s.towers, LAMBDA item : item.id # towerId),
                       !.beams = SelectSeq(s.beams, LAMBDA beam : beam.sourceTowerId # towerId),
                       !.effects = Append(s.effects, createEffect("sell", cellCenter(tower.cell), s.nextEffectId)),
                       !.recentEvents = appendEvent(<<>>, s.nextEventId, "sell", "none"),
                       !.nextEffectId = s.nextEffectId + 1,
                       !.nextEventId = s.nextEventId + 1]

sellTower(s, towerId) ==
    IF s.status # "running" THEN s
    ELSE LET found == findTower(s, towerId)
         IN IF found = <<>> THEN s
            ELSE LET tower == found[1]
                     sellValue == getTowerSellValue(tower)
                 IN [s EXCEPT
                       !.money = s.money + sellValue,
                       !.towers = SelectSeq(s.towers, LAMBDA item : item.id # towerId),
                       !.projectiles = SelectSeq(s.projectiles, LAMBDA projectile : projectile.sourceTowerId # towerId),
                       !.beams = SelectSeq(s.beams, LAMBDA beam : beam.sourceTowerId # towerId),
                       !.effects = Append(s.effects, createEffect("sell", cellCenter(tower.cell), s.nextEffectId)),
                       !.recentEvents = appendEvent(<<>>, s.nextEventId, "sell", "none"),
                       !.nextEffectId = s.nextEffectId + 1,
                       !.nextEventId = s.nextEventId + 1]

\* TARGET_MODE_ORDER.indexOf, 0-based, -1 when absent
IndexOfMode(mode) ==
    IF \E i \in 1..Len(TARGET_MODE_ORDER) : TARGET_MODE_ORDER[i] = mode
    THEN (CHOOSE i \in 1..Len(TARGET_MODE_ORDER) : TARGET_MODE_ORDER[i] = mode) - 1
    ELSE -1

\* cycleTowerTargetMode advancing the target mode of every tower
cycleTowerTargetMode_EveryTower(s, towerId) ==
    IF s.status # "running" THEN s
    ELSE LET changed == \E i \in 1..Len(s.towers) : s.towers[i].id = towerId
             towers == [i \in 1..Len(s.towers) |->
                          LET currentIndex == IndexOfMode(s.towers[i].targetMode)
                              nextIndex == IF currentIndex = -1 THEN 0
                                           ELSE (currentIndex + 1) % Len(TARGET_MODE_ORDER)
                          IN [s.towers[i] EXCEPT !.targetMode = TARGET_MODE_ORDER[nextIndex + 1]]]
         IN IF ~changed THEN s
            ELSE [s EXCEPT !.towers = towers,
                           !.recentEvents = appendEvent(<<>>, s.nextEventId, "targetMode", "none"),
                           !.nextEventId = s.nextEventId + 1]

cycleTowerTargetMode(s, towerId) ==
    IF s.status # "running" THEN s
    ELSE LET changed == \E i \in 1..Len(s.towers) : s.towers[i].id = towerId
             towers == [i \in 1..Len(s.towers) |->
                          IF s.towers[i].id # towerId THEN s.towers[i]
                          ELSE LET currentIndex == IndexOfMode(s.towers[i].targetMode)
                                   nextIndex == IF currentIndex = -1 THEN 0
                                                ELSE (currentIndex + 1) % Len(TARGET_MODE_ORDER)
                               IN [s.towers[i] EXCEPT !.targetMode = TARGET_MODE_ORDER[nextIndex + 1]]]
         IN IF ~changed THEN s
            ELSE [s EXCEPT !.towers = towers,
                           !.recentEvents = appendEvent(<<>>, s.nextEventId, "targetMode", "none"),
                           !.nextEventId = s.nextEventId + 1]

(***************************************************************************)
(* engine.ts : tickGame.  The locals of the function body are the fields   *)
(* of one record that the steps of the body update in source order.        *)
(***************************************************************************)
MapGet(f, key, default) == IF key \in DOMAIN f THEN f[key] ELSE default

MapSet(f, key, value) == [k \in (DOMAIN f) \cup {key} |-> IF k = key THEN value ELSE f[k]]

EmptyMap == [k \in {} |-> 0]

TickLocals(s) ==
    [status |-> s.status, lives |-> s.lives, money |-> s.money, waveIndex |-> s.waveIndex,
     spawnedInWave |-> s.spawnedInWave, timeUntilWaveStart |-> s.timeUntilWaveStart,
     timeUntilNextSpawn |-> s.timeUntilNextSpawn, nextEnemyId |-> s.nextEnemyId,
     nextProjectileId |-> s.nextProjectileId, nextEffectId |-> s.nextEffectId,
     nextEventId |-> s.nextEventId, enemies |-> s.enemies, spawnedEffects |-> <<>>,
     events |-> <<>>, hitEventBudget |-> HIT_EVENT_BUDGET, fireEventBudget |-> FIRE_EVENT_BUDGET,
     impactEffectBudget |-> IMPACT_EFFECT_BUDGET, towers |-> <<>>, spawnedProjectiles |-> <<>>,
     activeBeams |-> <<>>, damageByEnemy |-> EmptyMap, slowByEnemy |-> EmptyMap,
     nextProjectiles |-> <<>>, hitEffects |-> <<>>, effects |-> <<>>]

\* waves[waveIndex] exists
HasWave(waves, waveIndex) == waveIndex >= 0 /\ waveIndex < Len(waves)

\* the spawn loop running for as long as a spawn is due, quota or not
RECURSIVE SpawnLoop_NoQuota(_, _, _)
SpawnLoop_NoQuota(r, currentWave, map) ==
    IF r.timeUntilNextSpawn <= 0
    THEN LET newEnemy == createEnemy(currentWave.enemyType, r.nextEnemyId, map)
         IN SpawnLoop_NoQuota([r EXCEPT
                         !.enemies = Append(@, newEnemy),
                         !.spawnedEffects = Append(@, createEffect("spawn", newEnemy.position, r.nextEffectId)),
                         !.nextEnemyId = @ + 1,
                         !.nextEffectId = @ + 1,
                         !.spawnedInWave = @ + 1,
                         !.timeUntilNextSpawn = @ + currentWave.spawnInterval,
                         !.events = appendEvent(@, r.nextEventId, "spawn", "none"),
                         !.nextEventId = @ + 1],
                      currentWave, map)
    ELSE r

RECURSIVE SpawnLoop(_, _, _)
SpawnLoop(r, currentWave, map) ==
    IF r.timeUntilNextSpawn <= 0 /\ r.spawnedInWave < currentWave.count
    THEN LET newEnemy == createEnemy(currentWave.enemyType, r.nextEnemyId, map)
         IN SpawnLoop([r EXCEPT
                         !.enemies = Append(@, newEnemy),
                         !.spawnedEffects = Append(@, createEffect("spawn", newEnemy.position, r.nextEffectId)),
                         !.nextEnemyId = @ + 1,
                         !.nextEffectId = @ + 1,
                         !.spawnedInWave = @ + 1,
                         !.timeUntilNextSpawn = @ + currentWave.spawnInterval,
                         !.events = appendEvent(@, r.nextEventId, "spawn", "none"),
                         !.nextEventId = @ + 1],
                      currentWave, map)
    ELSE r

\* spawning with an if in place of the while: at most one enemy a tick
SpawnStep_OnePerTick(r, dt, waves, map) ==
    IF ~HasWave(waves, r.waveIndex) THEN r
    ELSE LET currentWave == waves[r.waveIndex + 1]
             timed == [r EXCEPT !.timeUntilNextSpawn = @ - dt]
             newEnemy == createEnemy(currentWave.enemyType, r.nextEnemyId, map)
         IN IF r.timeUntilWaveStart > 0
            THEN [r EXCEPT !.timeUntilWaveStart = Max(0, @ - dt)]
            ELSE IF r.spawnedInWave < currentWave.count
            THEN IF timed.timeUntilNextSpawn <= 0
                 THEN [timed EXCEPT
                         !.enemies = Append(@, newEnemy),
                         !.spawnedEffects = Append(@, createEffect("spawn", newEnemy.position, r.nextEffectId)),
                         !.nextEnemyId = @ + 1,
                         !.nextEffectId = @ + 1,
                         !.spawnedInWave = @ + 1,
                         !.timeUntilNextSpawn = @ + currentWave.spawnInterval,
                         !.events = appendEvent(@, r.nextEventId, "spawn", "none"),
                         !.nextEventId = @ + 1]
                 ELSE timed
            ELSE r

\* spawning that spends what a tick has left of dt after the start delay
SpawnStep_DelayCarriesOver(r, dt, waves, map) ==
    IF ~HasWave(waves, r.waveIndex) THEN r
    ELSE LET currentWave == waves[r.waveIndex + 1]
         IN IF r.timeUntilWaveStart > dt
            THEN [r EXCEPT !.timeUntilWaveStart = @ - dt]
            ELSE IF r.spawnedInWave < currentWave.count
            THEN SpawnLoop([r EXCEPT !.timeUntilWaveStart = 0,
                                     !.timeUntilNextSpawn = @ - (dt - r.timeUntilWaveStart)],
                           currentWave, map)
            ELSE r

\* lines 503-522
SpawnStep(r, dt, waves, map) ==
    IF ~HasWave(waves, r.waveIndex) THEN r
    ELSE LET currentWave == waves[r.waveIndex + 1]
         IN IF r.timeUntilWaveStart > 0
            THEN [r EXCEPT !.timeUntilWaveStart = Max(0, @ - dt)]
            ELSE IF r.spawnedInWave < currentWave.count
            THEN SpawnLoop([r EXCEPT !.timeUntilNextSpawn = @ - dt], currentWave, map)
            ELSE r

\* the movement loop debiting one life for every enemy that reaches the core
RECURSIVE MoveLoop_DebitsOne(_, _, _, _, _)
MoveLoop_DebitsOne(r, enemies, i, dt, map) ==
    IF i > Len(enemies) THEN r
    ELSE LET enemy == enemies[i]
             nextSlowTimeRemaining == Max(0, enemy.slowTimeRemaining - dt)
             nextSlowMultiplier == IF nextSlowTimeRemaining > 0 THEN enemy.slowMultiplier ELSE 1000
             nextProgress == enemy.progress + (((enemy.speed * nextSlowMultiplier) \div 1000) * dt) \div 1000
         IN IF nextProgress >= map.route.totalLength
            THEN MoveLoop_DebitsOne([r EXCEPT !.lives = @ - 1], enemies, i + 1, dt, map)
            ELSE MoveLoop_DebitsOne([r EXCEPT !.enemies = Append(@,
                              [enemy EXCEPT !.progress = nextProgress,
                                            !.position = samplePolyline(map.route, nextProgress),
                                            !.slowMultiplier = nextSlowMultiplier,
                                            !.slowTimeRemaining = nextSlowTimeRemaining])],
                          enemies, i + 1, dt, map)

RECURSIVE MoveLoop(_, _, _, _, _)
MoveLoop(r, enemies, i, dt, map) ==
    IF i > Len(enemies) THEN r
    ELSE LET enemy == enemies[i]
             nextSlowTimeRemaining == Max(0, enemy.slowTimeRemaining - dt)
             nextSlowMultiplier == IF nextSlowTimeRemaining > 0 THEN enemy.slowMultiplier ELSE 1000
             nextProgress == enemy.progress + (((enemy.speed * nextSlowMultiplier) \div 1000) * dt) \div 1000
         IN IF nextProgress >= map.route.totalLength
            THEN MoveLoop([r EXCEPT !.lives = @ - enemy.coreDamage], enemies, i + 1, dt, map)
            ELSE MoveLoop([r EXCEPT !.enemies = Append(@,
                              [enemy EXCEPT !.progress = nextProgress,
                                            !.position = samplePolyline(map.route, nextProgress),
                                            !.slowMultiplier = nextSlowMultiplier,
                                            !.slowTimeRemaining = nextSlowTimeRemaining])],
                          enemies, i + 1, dt, map)

\* the movement step leaving every enemy where it stands
MoveStep_Standstill(r, dt, map) == r

\* lines 524-542
MoveStep(r, dt, map) == MoveLoop([r EXCEPT !.enemies = <<>>], r.enemies, 1, dt, map)

\* applyDamage keeping only the latest damage of the tick against an enemy
applyDamage_Overwrites(r, enemyId, damage) ==
    IF damage <= 0 THEN r
    ELSE [r EXCEPT !.damageByEnemy = MapSet(@, enemyId, damage)]

applyDamage(r, enemyId, damage) ==
    IF damage <= 0 THEN r
    ELSE [r EXCEPT !.damageByEnemy = MapSet(@, enemyId, MapGet(@, enemyId, 0) + damage)]

\* applySlow recording every slow payload, whatever its multiplier and duration
applySlow_Unguarded(r, enemyId, multiplier, duration) ==
    IF enemyId \notin DOMAIN r.slowByEnemy
    THEN [r EXCEPT !.slowByEnemy = MapSet(@, enemyId, [multiplier |-> multiplier, duration |-> duration])]
    ELSE LET existing == r.slowByEnemy[enemyId]
         IN [r EXCEPT !.slowByEnemy = MapSet(@, enemyId,
                [multiplier |-> Min(existing.multiplier, multiplier),
                 duration |-> Max(existing.duration, duration)])]

\* applySlow letting the latest slow of the tick replace the earlier ones
applySlow_LastWins(r, enemyId, multiplier, duration) ==
    IF multiplier <= 0 \/ multiplier >= 1000 \/ duration <= 0 THEN r
    ELSE [r EXCEPT !.slowByEnemy = MapSet(@, enemyId, [multiplier |-> multiplier, duration |-> duration])]

applySlow(r, enemyId, multiplier, duration) ==
    IF multiplier <= 0 \/ multiplier >= 1000 \/ duration <= 0 THEN r
    ELSE IF enemyId \notin DOMAIN r.slowByEnemy
    THEN [r EXCEPT !.slowByEnemy = MapSet(@, enemyId, [multiplier |-> multiplier, duration |-> duration])]
    ELSE LET existing == r.slowByEnemy[enemyId]
         IN [r EXCEPT !.slowByEnemy = MapSet(@, enemyId,
                [multiplier |-> Min(existing.multiplier, multiplier),
                 duration |-> Max(existing.duration, duration)])]

\* the tower step in which a beam burns only when the cooldown has run out
TowerStep_BeamWaitsForCooldown(r, tower, dt) ==
    LET towerStats == getTowerStats(tower)
        cooldown == Max(0, tower.cooldown - dt)
        towerPosition == cellCenter(tower.cell)
        targetIndex == selectTarget(r.enemies, tower.cell, towerStats, tower.targetMode)
        hasTarget == targetIndex # 0
        target == r.enemies[targetIndex]
        aimAngle == IF hasTarget
                    THEN [dx |-> target.position.x - towerPosition.x,
                          dy |-> target.position.y - towerPosition.y]
                    ELSE tower.aimAngle
    IN IF towerStats.attackKind = "beam" /\ hasTarget /\ cooldown <= 0
       THEN LET beamDamage == (towerStats.damage * dt) \div 1000
                withBeam == [applyDamage(r, target.id, beamDamage) EXCEPT
                               !.activeBeams = Append(@, [id |-> tower.id, sourceTowerId |-> tower.id,
                                                          start |-> towerPosition, end |-> target.position])]
                fires == cooldown <= 0 /\ r.fireEventBudget > 0
            IN IF fires
               THEN [withBeam EXCEPT
                       !.events = appendEvent(@, r.nextEventId, "fire", tower.towerType),
                       !.nextEventId = @ + 1,
                       !.fireEventBudget = @ - 1,
                       !.towers = Append(@, [tower EXCEPT !.cooldown = cooldown + BEAM_FIRE_EVENT_INTERVAL_SECONDS,
                                                          !.aimAngle = aimAngle])]
               ELSE [withBeam EXCEPT
                       !.towers = Append(@, [tower EXCEPT !.cooldown = cooldown, !.aimAngle = aimAngle])]
       ELSE IF cooldown <= 0 /\ hasTarget
       THEN LET projectile == [id |-> r.nextProjectileId, sourceTowerId |-> tower.id,
                               towerType |-> tower.towerType, targetEnemyId |-> target.id,
                               damage |-> towerStats.damage, speed |-> towerStats.projectileSpeed,
                               position |-> towerPosition, splashRadius |-> towerStats.splashRadius,
                               slowMultiplier |-> towerStats.slowMultiplier,
                               slowDuration |-> towerStats.slowDuration]
                shot == [r EXCEPT
                           !.spawnedProjectiles = Append(@, projectile),
                           !.nextProjectileId = @ + 1,
                           !.towers = Append(@, [tower EXCEPT !.cooldown = cooldown + 1000000 \div towerStats.fireRate,
                                                              !.aimAngle = aimAngle])]
            IN IF r.fireEventBudget > 0
               THEN [shot EXCEPT !.events = appendEvent(@, r.nextEventId, "fire", tower.towerType),
                                 !.nextEventId = @ + 1,
                                 !.fireEventBudget = @ - 1]
               ELSE shot
       ELSE [r EXCEPT !.towers = Append(@, [tower EXCEPT !.cooldown = cooldown, !.aimAngle = aimAngle])]

\* the tower step that catches up on a long tick: one projectile for every
\* fire interval that elapsed in it
TowerStep_CatchesUp(r, tower, dt) ==
    LET towerStats == getTowerStats(tower)
        cooldown == Max(0, tower.cooldown - dt)
        towerPosition == cellCenter(tower.cell)
        targetIndex == selectTarget(r.enemies, tower.cell, towerStats, tower.targetMode)
        hasTarget == targetIndex # 0
        target == r.enemies[targetIndex]
        aimAngle == IF hasTarget
                    THEN [dx |-> target.position.x - towerPosition.x,
                          dy |-> target.position.y - towerPosition.y]
                    ELSE tower.aimAngle
    IN IF towerStats.attackKind = "beam" /\ hasTarget
       THEN LET beamDamage == (towerStats.damage * dt) \div 1000
                withBeam == [applyDamage(r, target.id, beamDamage) EXCEPT
                               !.activeBeams = Append(@, [id |-> tower.id, sourceTowerId |-> tower.id,
                                                          start |-> towerPosition, end |-> target.position])]
                fires == cooldown <= 0 /\ r.fireEventBudget > 0
            IN IF fires
               THEN [withBeam EXCEPT
                       !.events = appendEvent(@, r.nextEventId, "fire", tower.towerType),
                       !.nextEventId = @ + 1,
                       !.fireEventBudget = @ - 1,
                       !.towers = Append(@, [tower EXCEPT !.cooldown = cooldown + BEAM_FIRE_EVENT_INTERVAL_SECONDS,
                                                          !.aimAngle = aimAngle])]
               ELSE [withBeam EXCEPT
                       !.towers = Append(@, [tower EXCEPT !.cooldown = cooldown, !.aimAngle = aimAngle])]
       ELSE IF cooldown <= 0 /\ hasTarget
       THEN LET projectile == [id |-> r.nextProjectileId, sourceTowerId |-> tower.id,
                               towerType |-> tower.towerType, targetEnemyId |-> target.id,
                               damage |-> towerStats.damage, speed |-> towerStats.projectileSpeed,
                               position |-> towerPosition, splashRadius |-> towerStats.splashRadius,
                               slowMultiplier |-> towerStats.slowMultiplier,
                               slowDuration |-> towerStats.slowDuration]
                shots == 1 + (dt - tower.cooldown) \div (1000000 \div towerStats.fireRate)
                shot == [r EXCEPT
                           !.spawnedProjectiles = @ \o [k \in 1..shots |->
                                                          [projectile EXCEPT !.id = r.nextProjectileId + k - 1]],
                           !.nextProjectileId = @ + shots,
                           !.towers = Append(@, [tower EXCEPT !.cooldown = cooldown + 1000000 \div towerStats.fireRate,
                                                              !.aimAngle = aimAngle])]
            IN IF r.fireEventBudget > 0
               THEN [shot EXCEPT !.events = appendEvent(@, r.nextEventId, "fire", tower.towerType),
                                 !.nextEventId = @ + 1,
                                 !.fireEventBudget = @ - 1]
               ELSE shot
       ELSE [r EXCEPT !.towers = Append(@, [tower EXCEPT !.cooldown = cooldown, !.aimAngle = aimAngle])]

\* one iteration of the loop over state.towers, lines 576-633
TowerStep(r, tower, dt) ==
    LET towerStats == getTowerStats(tower)
        cooldown == Max(0, tower.cooldown - dt)
        towerPosition == cellCenter(tower.cell)
        targetIndex == selectTarget(r.enemies, tower.cell, towerStats, tower.targetMode)
        hasTarget == targetIndex # 0
        target == r.enemies[targetIndex]
        aimAngle == IF hasTarget
                    THEN [dx |-> target.position.x - towerPosition.x,
                          dy |-> target.position.y - towerPosition.y]
                    ELSE tower.aimAngle
    IN IF towerStats.attackKind = "beam" /\ hasTarget
       THEN LET beamDamage == (towerStats.damage * dt) \div 1000
                withBeam == [applyDamage(r, target.id, beamDamage) EXCEPT
                               !.activeBeams = Append(@, [id |-> tower.id, sourceTowerId |-> tower.id,
                                                          start |-> towerPosition, end |-> target.position])]
                fires == cooldown <= 0 /\ r.fireEventBudget > 0
            IN IF fires
               THEN [withBeam EXCEPT
                       !.events = appendEvent(@, r.nextEventId, "fire", tower.towerType),
                       !.nextEventId = @ + 1,
                       !.fireEventBudget = @ - 1,
                       !.towers = Append(@, [tower EXCEPT !.cooldown = cooldown + BEAM_FIRE_EVENT_INTERVAL_SECONDS,
                                                          !.aimAngle = aimAngle])]
               ELSE [withBeam EXCEPT
                       !.towers = Append(@, [tower EXCEPT !.cooldown = cooldown, !.aimAngle = aimAngle])]
       ELSE IF cooldown <= 0 /\ hasTarget
       THEN LET projectile == [id |-> r.nextProjectileId, sourceTowerId |-> tower.id,
                               towerType |-> tower.towerType, targetEnemyId |-> target.id,
                               damage |-> towerStats.damage, speed |-> towerStats.projectileSpeed,
                               position |-> towerPosition, splashRadius |-> towerStats.splashRadius,
                               slowMultiplier |-> towerStats.slowMultiplier,
                               slowDuration |-> towerStats.slowDuration]
                shot == [r EXCEPT
                           !.spawnedProjectiles = Append(@, projectile),
                           !.nextProjectileId = @ + 1,
                           !.towers = Append(@, [tower EXCEPT !.cooldown = cooldown + 1000000 \div towerStats.fireRate,
                                                              !.aimAngle = aimAngle])]
            IN IF r.fireEventBudget > 0
               THEN [shot EXCEPT !.events = appendEvent(@, r.nextEventId, "fire", tower.towerType),
                                 !.nextEventId = @ + 1,
                                 !.fireEventBudget = @ - 1]
               ELSE shot
       ELSE [r EXCEPT !.towers = Append(@, [tower EXCEPT !.cooldown = cooldown, !.aimAngle = aimAngle])]

\* the tower loop in which a tower shoots only while the budget of fire
\* events lasts and else only cools down
RECURSIVE TowerLoop_BudgetGatesShots(_, _, _, _)
TowerLoop_BudgetGatesShots(r, towers, i, dt) ==
    IF i > Len(towers) THEN r
    ELSE IF r.fireEventBudget = 0
    THEN TowerLoop_BudgetGatesShots(
            [r EXCEPT !.towers = Append(@, [towers[i] EXCEPT !.cooldown = Max(0, @ - dt)])],
            towers, i + 1, dt)
    ELSE TowerLoop_BudgetGatesShots(TowerStep(r, towers[i], dt), towers, i + 1, dt)

RECURSIVE TowerLoop(_, _, _, _)
TowerLoop(r, towers, i, dt) ==
    IF i > Len(towers) THEN r ELSE TowerLoop(TowerStep(r, towers[i], dt), towers, i + 1, dt)

\* the tower loop run over the towers that can fire in this tick only
TowersStep_SkipsCooling(r, s, dt) ==
    TowerLoop(r, SelectSeq(s.towers, LAMBDA tower : tower.cooldown <= dt), 1, dt)

\* lines 544-634
TowersStep(r, s, dt) == TowerLoop(r, s.towers, 1, dt)

\* index of the enemy with this id in the list, 0 when enemiesById has none
EnemyIndexById(enemies, enemyId) ==
    IF \E i \in 1..Len(enemies) : enemies[i].id = enemyId
    THEN CHOOSE i \in 1..Len(enemies) : enemies[i].id = enemyId
    ELSE 0

\* distance <= travel || distance === 0, on the exact squared distance
\* (no square exceeds 2^31 for a travel below 46340 mc; a longer travel
\* covers any distance on the board)
ReachesTarget(dx, dy, travel) ==
    LET distanceSquared == dx * dx + dy * dy
    IN distanceSquared = 0 \/ travel >= 46340 \/ distanceSquared <= travel * travel

HasSplash(projectile) == projectile.splashRadius > 0

\* slowMultiplier !== undefined && slowDuration !== undefined && slowDuration > 0
HasSlowPayload(projectile) == projectile.slowDuration > 0

\* the impact touching the locked target only, splash or not
ImpactedEnemies_TargetOnly(enemies, targetIndex, projectile) == <<targetIndex>>

\* indices of the enemies the impact touches, in list order
ImpactedEnemies(enemies, targetIndex, projectile) ==
    IF HasSplash(projectile)
    THEN LET impactPosition == enemies[targetIndex].position
         IN SelectSeq([i \in 1..Len(enemies) |-> i],
                      LAMBDA i : LET splashDx == enemies[i].position.x - impactPosition.x
                                     splashDy == enemies[i].position.y - impactPosition.y
                                 IN splashDx * splashDx + splashDy * splashDy
                                      <= projectile.splashRadius * projectile.splashRadius)
    ELSE <<targetIndex>>

RECURSIVE ImpactLoop(_, _, _, _, _)
ImpactLoop(r, enemies, impacted, k, projectile) ==
    IF k > Len(impacted) THEN r
    ELSE LET impactedEnemy == enemies[impacted[k]]
             damaged == applyDamage(r, impactedEnemy.id, projectile.damage)
             slowed == IF HasSlowPayload(projectile)
                       THEN applySlow(damaged, impactedEnemy.id, projectile.slowMultiplier, projectile.slowDuration)
                       ELSE damaged
         IN ImpactLoop(slowed, enemies, impacted, k + 1, projectile)

ImpactKind(projectile) ==
    IF HasSplash(projectile) THEN "splash"
    ELSE IF HasSlowPayload(projectile) THEN "chill"
    ELSE "hit"

\* the impact applying its damage and slow only while the hit-event budget lasts
ProjectileStep_BudgetGatesDamage(r, projectile, dt) ==
    LET targetIndex == EnemyIndexById(r.enemies, projectile.targetEnemyId)
    IN IF targetIndex = 0 THEN r
       ELSE LET target == r.enemies[targetIndex]
                dx == target.position.x - projectile.position.x
                dy == target.position.y - projectile.position.y
                travel == (projectile.speed * dt) \div 1000
            IN IF ReachesTarget(dx, dy, travel)
               THEN LET impactPosition == target.position
                        hurt == IF r.hitEventBudget > 0
                                THEN ImpactLoop(r, r.enemies, ImpactedEnemies(r.enemies, targetIndex, projectile), 1, projectile)
                                ELSE r
                        withEffect == IF hurt.impactEffectBudget > 0
                                      THEN [hurt EXCEPT
                                              !.hitEffects = Append(@, createEffect(ImpactKind(projectile), impactPosition, hurt.nextEffectId)),
                                              !.nextEffectId = @ + 1,
                                              !.impactEffectBudget = @ - 1]
                                      ELSE hurt
                    IN IF withEffect.hitEventBudget > 0
                       THEN [withEffect EXCEPT
                               !.events = appendEvent(@, withEffect.nextEventId, "hit", projectile.towerType),
                               !.nextEventId = @ + 1,
                               !.hitEventBudget = @ - 1]
                       ELSE withEffect
               ELSE LET distance == Hypot(dx, dy)
                    IN [r EXCEPT !.nextProjectiles = Append(@,
                          [projectile EXCEPT !.position =
                             [x |-> projectile.position.x + QuotTrunc(dx * travel, distance),
                              y |-> projectile.position.y + QuotTrunc(dy * travel, distance)]])]

\* the projectile step leaving a projectile without a target in flight
ProjectileStep_KeepsOrphans(r, projectile, dt) ==
    LET targetIndex == EnemyIndexById(r.enemies, projectile.targetEnemyId)
    IN IF targetIndex = 0 THEN [r EXCEPT !.nextProjectiles = Append(@, projectile)]
       ELSE LET target == r.enemies[targetIndex]
                dx == target.position.x - projectile.position.x
                dy == target.position.y - projectile.position.y
                travel == (projectile.speed * dt) \div 1000
            IN IF ReachesTarget(dx, dy, travel)
               THEN LET impactPosition == target.position
                        hurt == ImpactLoop(r, r.enemies, ImpactedEnemies(r.enemies, targetIndex, projectile), 1, projectile)
                        withEffect == IF hurt.impactEffectBudget > 0
                                      THEN [hurt EXCEPT
                                              !.hitEffects = Append(@, createEffect(ImpactKind(projectile), impactPosition, hurt.nextEffectId)),
                                              !.nextEffectId = @ + 1,
                                              !.impactEffectBudget = @ - 1]
                                      ELSE hurt
                    IN IF withEffect.hitEventBudget > 0
                       THEN [withEffect EXCEPT
                               !.events = appendEvent(@, withEffect.nextEventId, "hit", projectile.towerType),
                               !.nextEventId = @ + 1,
                               !.hitEventBudget = @ - 1]
                       ELSE withEffect
               ELSE LET distance == Hypot(dx, dy)
                    IN [r EXCEPT !.nextProjectiles = Append(@,
                          [projectile EXCEPT !.position =
                             [x |-> projectile.position.x + QuotTrunc(dx * travel, distance),
                              y |-> projectile.position.y + QuotTrunc(dy * travel, distance)]])]

\* one iteration of the loop over incomingProjectiles, lines 641-704
ProjectileStep(r, projectile, dt) ==
    LET targetIndex == EnemyIndexById(r.enemies, projectile.targetEnemyId)
    IN IF targetIndex = 0 THEN r
       ELSE LET target == r.enemies[targetIndex]
                dx == target.position.x - projectile.position.x
                dy == target.position.y - projectile.position.y
                travel == (projectile.speed * dt) \div 1000
            IN IF ReachesTarget(dx, dy, travel)
               THEN LET impactPosition == target.position
                        hurt == ImpactLoop(r, r.enemies, ImpactedEnemies(r.enemies, targetIndex, projectile), 1, projectile)
                        withEffect == IF hurt.impactEffectBudget > 0
                                      THEN [hurt EXCEPT
                                              !.hitEffects = Append(@, createEffect(ImpactKind(projectile), impactPosition, hurt.nextEffectId)),
                                              !.nextEffectId = @ + 1,
                                              !.impactEffectBudget = @ - 1]
                                      ELSE hurt
                    IN IF withEffect.hitEventBudget > 0
                       THEN [withEffect EXCEPT
                               !.events = appendEvent(@, withEffect.nextEventId, "hit", projectile.towerType),
                               !.nextEventId = @ + 1,
                               !.hitEventBudget = @ - 1]
                       ELSE withEffect
               ELSE LET distance == Hypot(dx, dy)
                    IN [r EXCEPT !.nextProjectiles = Append(@,
                          [projectile EXCEPT !.position =
                             [x |-> projectile.position.x + QuotTrunc(dx * travel, distance),
                              y |-> projectile.position.y + QuotTrunc(dy * travel, distance)]])]

RECURSIVE ProjectileLoop(_, _, _, _)
ProjectileLoop(r, incoming, i, dt) ==
    IF i > Len(incoming) THEN r
    ELSE ProjectileLoop(ProjectileStep(r, incoming[i], dt), incoming, i + 1, dt)

\* projectile resolution of the projectiles carried over only: those fired
\* in this tick go into flight as they are
ProjectilesStep_CarriedOnly(r, s, dt) ==
    LET resolved == ProjectileLoop(r, s.projectiles, 1, dt)
    IN [resolved EXCEPT !.nextProjectiles = @ \o r.spawnedProjectiles]

\* lines 636-704
ProjectilesStep(r, s, dt) == ProjectileLoop(r, s.projectiles \o r.spawnedProjectiles, 1, dt)

\* damage resolution crediting the reward of every enemy it visits, dead or not
RECURSIVE DamageLoop_RewardsAll(_, _, _)
DamageLoop_RewardsAll(r, enemies, i) ==
    IF i > Len(enemies) THEN r
    ELSE LET enemy == enemies[i]
             damage == MapGet(r.damageByEnemy, enemy.id, 0)
             health == enemy.health - damage
             dies == damage > 0 /\ ~(health > 0)
             hurtEnemy == IF damage > 0 THEN [enemy EXCEPT !.health = health] ELSE enemy
             nextEnemy == IF enemy.id \in DOMAIN r.slowByEnemy
                          THEN LET slowStatus == r.slowByEnemy[enemy.id]
                               IN [hurtEnemy EXCEPT
                                     !.slowMultiplier = IF hurtEnemy.slowTimeRemaining > 0
                                                        THEN Min(hurtEnemy.slowMultiplier, slowStatus.multiplier)
                                                        ELSE slowStatus.multiplier,
                                     !.slowTimeRemaining = Max(hurtEnemy.slowTimeRemaining, slowStatus.duration)]
                          ELSE hurtEnemy
         IN IF dies
            THEN DamageLoop_RewardsAll([r EXCEPT !.money = @ + enemy.reward], enemies, i + 1)
            ELSE DamageLoop_RewardsAll([r EXCEPT !.money = @ + enemy.reward,
                                                !.enemies = Append(@, nextEnemy)], enemies, i + 1)

RECURSIVE DamageLoop(_, _, _)
DamageLoop(r, enemies, i) ==
    IF i > Len(enemies) THEN r
    ELSE LET enemy == enemies[i]
             damage == MapGet(r.damageByEnemy, enemy.id, 0)
             health == enemy.health - damage
             dies == damage > 0 /\ ~(health > 0)
             hurtEnemy == IF damage > 0 THEN [enemy EXCEPT !.health = health] ELSE enemy
             nextEnemy == IF enemy.id \in DOMAIN r.slowByEnemy
                          THEN LET slowStatus == r.slowByEnemy[enemy.id]
                               IN [hurtEnemy EXCEPT
                                     !.slowMultiplier = IF hurtEnemy.slowTimeRemaining > 0
                                                        THEN Min(hurtEnemy.slowMultiplier, slowStatus.multiplier)
                                                        ELSE slowStatus.multiplier,
                                     !.slowTimeRemaining = Max(hurtEnemy.slowTimeRemaining, slowStatus.duration)]
                          ELSE hurtEnemy
         IN IF dies
            THEN DamageLoop([r EXCEPT !.money = @ + enemy.reward], enemies, i + 1)
            ELSE DamageLoop([r EXCEPT !.enemies = Append(@, nextEnemy)], enemies, i + 1)

\* lines 706-743
DamageStep(r) == DamageLoop([r EXCEPT !.enemies = <<>>], r.enemies, 1)

\* wave advancement as soon as the quota is spawned, enemies alive or not
WaveAdvance_IgnoresEnemies(r, waves) ==
    IF HasWave(waves, r.waveIndex) /\ r.spawnedInWave >= waves[r.waveIndex + 1].count
    THEN [r EXCEPT !.waveIndex = @ + 1,
                   !.spawnedInWave = 0,
                   !.timeUntilNextSpawn = 0,
                   !.timeUntilWaveStart = IF HasWave(waves, r.waveIndex + 1)
                                          THEN INTER_WAVE_DELAY_SECONDS + waves[r.waveIndex + 2].startDelay
                                          ELSE 0]
    ELSE r

\* wave advancement in which the next wave's own start delay replaces the
\* pause between waves
WaveAdvance_DelayReplaces(r, waves) ==
    IF HasWave(waves, r.waveIndex)
       /\ r.spawnedInWave >= waves[r.waveIndex + 1].count
       /\ Len(r.enemies) = 0
    THEN [r EXCEPT !.waveIndex = @ + 1,
                   !.spawnedInWave = 0,
                   !.timeUntilNextSpawn = 0,
                   !.timeUntilWaveStart = IF HasWave(waves, r.waveIndex + 1)
                                          THEN waves[r.waveIndex + 2].startDelay
                                          ELSE 0]
    ELSE r

\* lines 749-761
WaveAdvance(r, waves) ==
    IF HasWave(waves, r.waveIndex)
       /\ r.spawnedInWave >= waves[r.waveIndex + 1].count
       /\ Len(r.enemies) = 0
    THEN [r EXCEPT !.waveIndex = @ + 1,
                   !.spawnedInWave = 0,
                   !.timeUntilNextSpawn = 0,
                   !.timeUntilWaveStart = IF HasWave(waves, r.waveIndex + 1)
                                          THEN INTER_WAVE_DELAY_SECONDS + waves[r.waveIndex + 2].startDelay
                                          ELSE 0]
    ELSE r

\* the win check without the test of the schedule
WinCheck_IgnoresSchedule(r, waves) ==
    IF Len(r.enemies) = 0 THEN [r EXCEPT !.status = "won"] ELSE r

\* lines 763-765
WinCheck(r, waves) ==
    IF r.waveIndex >= Len(waves) /\ Len(r.enemies) = 0 THEN [r EXCEPT !.status = "won"] ELSE r

\* the loss check without the clamp of lives to 0
StatusStep_NoClamp(r, waves) ==
    IF r.lives <= 0
    THEN [r EXCEPT !.status = "lost"]
    ELSE WinCheck(WaveAdvance(r, waves), waves)

\* wave advancement and win check evaluated before the loss check
StatusStep_WinFirst(r, waves) ==
    LET advanced == WinCheck(WaveAdvance(r, waves), waves)
    IN IF advanced.status = "won" THEN advanced
       ELSE IF r.lives <= 0 THEN [r EXCEPT !.status = "lost", !.lives = 0]
       ELSE advanced

\* lines 745-766
StatusStep(r, waves) ==
    IF r.lives <= 0
    THEN [r EXCEPT !.status = "lost", !.lives = 0]
    ELSE WinCheck(WaveAdvance(r, waves), waves)

\* lines 768-773
EffectsStep(r, s, dt) ==
    LET all == s.effects \o r.spawnedEffects \o r.hitEffects
        aged == [i \in 1..Len(all) |-> [all[i] EXCEPT !.age = @ + dt]]
    IN [r EXCEPT !.effects = SelectSeq(aged, LAMBDA effect : effect.age < effect.duration)]

\* the locals after each step of the body, for a running state and dt > 0
AfterSpawn(s, dt) ==
    SpawnStep(TickLocals(s), dt, loadGameLevel(s.levelId).waves, loadGameMap(loadGameLevel(s.levelId).mapId))

AfterMove(s, dt) == MoveStep(AfterSpawn(s, dt), dt, loadGameMap(loadGameLevel(s.levelId).mapId))

\* targeting and firing run on the enemies as spawned, before their movement
AfterTowers_BeforeMove(s, dt) ==
    MoveStep(TowersStep(AfterSpawn(s, dt), s, dt), dt, loadGameMap(loadGameLevel(s.levelId).mapId))

AfterTowers(s, dt) == TowersStep(AfterMove(s, dt), s, dt)

AfterProjectiles(s, dt) == ProjectilesStep(AfterTowers(s, dt), s, dt)

AfterDamage(s, dt) == DamageStep(AfterProjectiles(s, dt))

AfterStatus(s, dt) == StatusStep(AfterDamage(s, dt), loadGameLevel(s.levelId).waves)

\* the returned state keeping the events of the state it was given
TickReturn_KeepsEvents(s, r, dt) ==
    [s EXCEPT !.status = r.status, !.elapsed = s.elapsed + dt, !.money = r.money,
              !.lives = r.lives, !.waveIndex = r.waveIndex, !.spawnedInWave = r.spawnedInWave,
              !.timeUntilWaveStart = r.timeUntilWaveStart,
              !.timeUntilNextSpawn = r.timeUntilNextSpawn, !.enemies = r.enemies,
              !.towers = r.towers, !.projectiles = r.nextProjectiles, !.beams = r.activeBeams,
              !.effects = r.effects, !.recentEvents = s.recentEvents \o r.events,
              !.nextEnemyId = r.nextEnemyId,
              !.nextTowerId = s.nextTowerId, !.nextProjectileId = r.nextProjectileId,
              !.nextEffectId = r.nextEffectId, !.nextEventId = r.nextEventId]

\* lines 775-797
TickReturn(s, r, dt) ==
    [s EXCEPT !.status = r.status, !.elapsed = s.elapsed + dt, !.money = r.money,
              !.lives = r.lives, !.waveIndex = r.waveIndex, !.spawnedInWave = r.spawnedInWave,
              !.timeUntilWaveStart = r.timeUntilWaveStart,
              !.timeUntilNextSpawn = r.timeUntilNextSpawn, !.enemies = r.enemies,
              !.towers = r.towers, !.projectiles = r.nextProjectiles, !.beams = r.activeBeams,
              !.effects = r.effects, !.recentEvents = r.events, !.nextEnemyId = r.nextEnemyId,
              !.nextTowerId = s.nextTowerId, !.nextProjectileId = r.nextProjectileId,
              !.nextEffectId = r.nextEffectId, !.nextEventId = r.nextEventId]

\* tickGame without the early return for a finished match
tickGame_TicksFinished(s, deltaSeconds) ==
    LET dt == Max(0, deltaSeconds)
    IN IF dt = 0 THEN s
       ELSE TickReturn(s, EffectsStep(AfterStatus(s, dt), s, dt), dt)

tickGame(s, deltaSeconds) ==
    IF s.status # "running" THEN s
    ELSE LET dt == Max(0, deltaSeconds)
         IN IF dt = 0 THEN s
            ELSE TickReturn(s, EffectsStep(AfterStatus(s, dt), s, dt), dt)

(***************************************************************************)
(* The host: it holds one GameState and replaces it by the result of one   *)
(* call at a time (index.tsx, setGameState).  ticks and commands count the *)
(* calls that changed the state and bound the exploration.                 *)
(***************************************************************************)
Init ==
    /\ state = createInitialGameState("drill")
    /\ ticks = 0
    /\ commands = 0

\* one call of tickGame with an elapsed time drawn from deltas
TickCall(deltas, maxTicks) ==
    /\ ticks < maxTicks
    /\ \E deltaSeconds \in deltas : state' = tickGame(state, deltaSeconds)
    /\ ticks' = IF state' = state THEN ticks ELSE ticks + 1
    /\ UNCHANGED commands

PlaceCall(maxCommands) ==
    /\ commands < maxCommands
    /\ \E input \in PlaceInputs : state' = placeTower(state, input.cell, input.towerTypeId)
    /\ commands' = IF state' = state THEN commands ELSE commands + 1
    /\ UNCHANGED ticks

UpgradeCall(maxCommands) ==
    /\ commands < maxCommands
    /\ \E towerId \in TowerIdSet : state' = upgradeTower(state, towerId)
    /\ commands' = IF state' = state THEN commands ELSE commands + 1
    /\ UNCHANGED ticks

SellCall(maxCommands) ==
    /\ commands < maxCommands
    /\ \E towerId \in TowerIdSet : state' = sellTower(state, towerId)
    /\ commands' = IF state' = state THEN commands ELSE commands + 1
    /\ UNCHANGED ticks

CycleCall(maxCommands) ==
    /\ commands < maxCommands
    /\ \E towerId \in TowerIdSet : state' = cycleTowerTargetMode(state, towerId)
    /\ commands' = IF state' = state THEN commands ELSE commands + 1
    /\ UNCHANGED ticks

(***************************************************************************)
(* Spec: a whole match.  The host ticks with short, medium and long        *)
(* elapsed times and the player gives a command now and then.              *)
(***************************************************************************)
Tick == TickCall(DeltaSet, MaxTicks)

Place == PlaceCall(MaxCommands)

Upgrade == UpgradeCall(MaxCommands)

Sell == SellCall(MaxCommands)

CycleTargetMode == CycleCall(MaxCommands)

Next == Tick \/ Place \/ Upgrade \/ Sell \/ CycleTargetMode

Spec == Init /\ [][Next]_vars

(***************************************************************************)
(* SpecBuild: the opening of a match.  The host ticks in short steps and   *)
(* the player builds, upgrades, sells and retargets between them.          *)
(***************************************************************************)
BuildTick == TickCall(BuildDeltaSet, MaxBuildTicks)

BuildPlace == PlaceCall(MaxBuildCommands)

BuildUpgrade == UpgradeCall(MaxBuildCommands)

BuildSell == SellCall(MaxBuildCommands)

BuildCycleTargetMode == CycleCall(MaxBuildCommands)

NextBuild == BuildTick \/ BuildPlace \/ BuildUpgrade \/ BuildSell \/ BuildCycleTargetMode

SpecBuild == Init /\ [][NextBuild]_vars

(***************************************************************************)
(* SpecBench: ticks of states given to the engine, as a test of the engine *)
(* gives them.  A column of three blocks is on the first stretch of the    *)
(* route, projectiles with drawn payloads are in flight towards them, and  *)
(* one or five pulse towers stand within range; or the burst level is at   *)
(* its start.                                                              *)
(***************************************************************************)
MaxBenchTicks == 2

\* elapsed-seconds values of the bench (ms)
BenchDeltaSet == {100, 250, 2000}

\* what a projectile in flight carries: damage (milli-hp), splash radius (mc)
\* and slow multiplier (per-mille) and duration (ms), 0 for an absent field
PayloadSet ==
    {[towerType |-> "pulse", damage |-> 16000, splashRadius |-> 0, slowMultiplier |-> 0, slowDuration |-> 0],
     [towerType |-> "bomb", damage |-> 12000, splashRadius |-> 1100, slowMultiplier |-> 0, slowDuration |-> 0],
     [towerType |-> "cold", damage |-> 10000, splashRadius |-> 0, slowMultiplier |-> 600, slowDuration |-> 2000],
     [towerType |-> "cold", damage |-> 10000, splashRadius |-> 0, slowMultiplier |-> 400, slowDuration |-> 1000]}

\* the slow the leading enemy already carries: none, a long strong one, a
\* short weak one
CarriedSlowSet ==
    {[slowMultiplier |-> 1000, slowTimeRemaining |-> 0],
     [slowMultiplier |-> 500, slowTimeRemaining |-> 3000],
     [slowMultiplier |-> 700, slowTimeRemaining |-> 500]}

\* further plain projectiles in flight, towards the second and third enemy
ExtraProjectileCounts == {0, 6}

\* the cells of the towers of the bench, the map's initial tower first
BenchTowerCells ==
    <<[col |-> 2, row |-> 6], [col |-> 1, row |-> 5], [col |-> 2, row |-> 5],
      [col |-> 1, row |-> 3], [col |-> 2, row |-> 3]>>

BenchTowerCounts == {1, 5}

\* progress of the three blocks of the column (mc), 0.8 s of march apart
BenchProgress == <<2000, 1200, 400>>

BenchEnemy(n, map, carried) ==
    [createEnemy("block", n, map) EXCEPT
        !.progress = BenchProgress[n],
        !.position = samplePolyline(map.route, BenchProgress[n]),
        !.slowMultiplier = IF n = 1 THEN carried.slowMultiplier ELSE 1000,
        !.slowTimeRemaining = IF n = 1 THEN carried.slowTimeRemaining ELSE 0]

BenchProjectile(n, payload, targetEnemyId) ==
    [id |-> n, sourceTowerId |-> 1, towerType |-> payload.towerType,
     targetEnemyId |-> targetEnemyId, damage |-> payload.damage,
     speed |-> CONFIG_TOWER_TYPES["pulse"].projectileSpeed,
     position |-> [x |-> 2500, y |-> 5500], splashRadius |-> payload.splashRadius,
     slowMultiplier |-> payload.slowMultiplier, slowDuration |-> payload.slowDuration]

BenchTower(n) ==
    [id |-> n, towerType |-> "pulse", cell |-> BenchTowerCells[n], level |-> 1,
     targetMode |-> "first", cooldown |-> 0, aimAngle |-> DEFAULT_TOWER_AIM_ANGLE]

\* the column level with its three blocks spawned and on the march, extra
\* plain projectiles in flight towards the second and third block, behind
\* them two projectiles with the payloads p1 and p2 towards the first
\* block, and towerCount towers; with fallen the third block was killed in
\* an earlier tick and a projectile with the payload p2 is still in flight
\* towards it
BenchState(p1, p2, carried, extra, towerCount, fallen) ==
    LET initial == createInitialGameState("column")
        map == loadGameMap(initial.mapId)
        plain == CHOOSE payload \in PayloadSet : payload.towerType = "pulse"
    IN [initial EXCEPT
          !.elapsed = 2400,
          !.spawnedInWave = 3,
          !.timeUntilNextSpawn = 800,
          !.enemies = [n \in 1..(IF fallen THEN 2 ELSE 3) |-> BenchEnemy(n, map, carried)],
          !.towers = [n \in 1..towerCount |-> BenchTower(n)],
          !.projectiles = (IF fallen THEN <<BenchProjectile(extra + 3, p2, 3)>> ELSE <<>>)
                             \o [k \in 1..extra |-> BenchProjectile(k, plain, 2 + (k % 2))]
                             \o <<BenchProjectile(extra + 1, p1, 1), BenchProjectile(extra + 2, p2, 1)>>,
          !.nextEnemyId = 4,
          !.nextTowerId = towerCount + 1,
          !.nextProjectileId = 4 + extra]

BenchStates ==
    {BenchState(p1, p2, carried, extra, towerCount, fallen) :
        p1 \in PayloadSet, p2 \in PayloadSet, carried \in CarriedSlowSet,
        extra \in ExtraProjectileCounts, towerCount \in BenchTowerCounts, fallen \in BOOLEAN}
       \cup {createInitialGameState("burst")}

InitBench ==
    /\ state \in BenchStates
    /\ ticks = 0
    /\ commands = 0

BenchTick == TickCall(BenchDeltaSet, MaxBenchTicks)

NextBench == BenchTick

SpecBench == InitBench /\ [][NextBench]_vars

(***************************************************************************)
(* SpecBeam: ticks of states with beam towers, given to the engine as the  *)
(* bench states are: the column of three blocks on the march, no           *)
(* projectile in flight, a number of pulse towers and after them in the    *)
(* tower list one or two beam towers, which the pulse towers' shots leave  *)
(* no fire-event budget.                                                   *)
(***************************************************************************)
MaxBeamTicks == 2

\* the cells of the beam towers: one that reaches only the rear of the
\* column, one that reaches its head
BeamTowerCells == <<[col |-> 0, row |-> 6], [col |-> 1, row |-> 2]>>

BeamTowerCounts == {1, 2}

\* the pulse towers ahead of the beam towers in the tower list
BeamPulseCounts == {0, 5}

\* the cooldown the beam towers start with (ms)
BeamCooldownSet == {0, 500}

BeamTower(n, k, cooldown) ==
    [id |-> n, towerType |-> "laser", cell |-> BeamTowerCells[k], level |-> 1,
     targetMode |-> "first", cooldown |-> cooldown, aimAngle |-> DEFAULT_TOWER_AIM_ANGLE]

BeamState(pulses, lasers, cooldown, carried) ==
    LET initial == createInitialGameState("column")
        map == loadGameMap(initial.mapId)
    IN [initial EXCEPT
          !.elapsed = 2400,
          !.spawnedInWave = 3,
          !.timeUntilNextSpawn = 800,
          !.enemies = [n \in 1..3 |-> BenchEnemy(n, map, carried)],
          !.towers = [n \in 1..pulses |-> BenchTower(n)]
                        \o [k \in 1..lasers |-> BeamTower(pulses + k, k, cooldown)],
          !.nextEnemyId = 4,
          !.nextTowerId = pulses + lasers + 1]

BeamStates ==
    {BeamState(pulses, lasers, cooldown, carried) :
        pulses \in BeamPulseCounts, lasers \in BeamTowerCounts,
        cooldown \in BeamCooldownSet, carried \in CarriedSlowSet}

InitBeam ==
    /\ state \in BeamStates
    /\ ticks = 0
    /\ commands = 0

BeamTick == TickCall(BenchDeltaSet, MaxBeamTicks)

NextBeam == BeamTick

SpecBeam == InitBeam /\ [][NextBeam]_vars

(***************************************************************************)
(* SpecMatch: a match played to its end.  The host's frame loop never      *)
(* stops: it ticks with elapsed times of at least a second for as long as  *)
(* the match runs, and the player gives a command now and then.            *)
(***************************************************************************)
MaxMatchTicks == 48

MaxMatchCommands == 1

\* elapsed-seconds values of the frame loop (ms), bounded below
MatchDeltaSet == {1000, 20000}

MatchTick == TickCall(MatchDeltaSet, MaxMatchTicks)

MatchPlace == PlaceCall(MaxMatchCommands)

MatchUpgrade == UpgradeCall(MaxMatchCommands)

MatchSell == SellCall(MaxMatchCommands)

MatchCycleTargetMode == CycleCall(MaxMatchCommands)

NextMatch == MatchTick \/ MatchPlace \/ MatchUpgrade \/ MatchSell \/ MatchCycleTargetMode

\* a tick can be counted: the match runs, so that a call of tickGame with
\* an elapsed time of MatchDeltaSet advances the clock
TickEnabled == ticks < MaxMatchTicks /\ state.status = "running"

\* the step of the frame loop that ticks a running match
TickCounted == TickEnabled /\ ticks' = ticks + 1

\* the frame loop is rescheduled after every frame (requestAnimationFrame):
\* a running match is not left without a tick for ever
SpecMatch == Init /\ [][NextMatch]_vars /\ WF_ticks(TickCounted)

(***************************************************************************)
(* SpecSite: building on the shipped maps.  A match starts on the relay or *)
(* on the switchback map and the player builds on free cells, on path      *)
(* cells, on occupied cells and off the board, upgrades and sells, while   *)
(* the host ticks now and then.                                            *)
(***************************************************************************)
MaxSiteTicks == 2

MaxSiteCommands == 3

\* elapsed-seconds values of the host between the commands (ms)
SiteDeltaSet == {250, 20000}

\* levels the matches start from, one on each map
SiteLevels == {"drill", "junction"}

\* the cells the player tries: free on both maps, a path cell of the relay
\* that is free on the switchback, a path cell of the switchback that is
\* free on the relay, the cells of the initial towers, and cells off the
\* board on each side
SiteCells ==
    {[col |-> 2, row |-> 2], [col |-> 1, row |-> 4], [col |-> 4, row |-> 3],
     [col |-> 2, row |-> 6], [col |-> 2, row |-> 3],
     [col |-> 12, row |-> 0], [col |-> 2, row |-> -1], [col |-> -1, row |-> 4], [col |-> 0, row |-> 8]}

SiteTowerTypes == {"pulse", "lance"}

InitSite ==
    /\ \E levelId \in SiteLevels : state = createInitialGameState(levelId)
    /\ ticks = 0
    /\ commands = 0

SiteTick == TickCall(SiteDeltaSet, MaxSiteTicks)

SitePlace ==
    /\ commands < MaxSiteCommands
    /\ \E cell \in SiteCells, towerTypeId \in SiteTowerTypes :
          state' = placeTower(state, cell, towerTypeId)
    /\ commands' = IF state' = state THEN commands ELSE commands + 1
    /\ UNCHANGED ticks

SiteUpgrade == UpgradeCall(MaxSiteCommands)

SiteSell == SellCall(MaxSiteCommands)

NextSite == SiteTick \/ SitePlace \/ SiteUpgrade \/ SiteSell

SpecSite == InitSite /\ [][NextSite]_vars

(***************************************************************************)
(* SpecChill: ticks of bench states whose two payload projectiles carry    *)
(* slows of every kind: well-formed ones, ones with a multiplier of 0, of  *)
(* 1 or above 1, and one with a multiplier but no duration; the leading    *)
(* block carries a slow that runs out within one or two ticks, or none.    *)
(***************************************************************************)
MaxChillTicks == 2

\* elapsed-seconds values (ms): a part of, all of and more than the slow
\* time the leading block carries
ChillDeltaSet == {100, 500, 2000}

ChillPayloadSet ==
    {[towerType |-> "cold", damage |-> 4000, splashRadius |-> 0, slowMultiplier |-> 600, slowDuration |-> 2000],
     [towerType |-> "cold", damage |-> 4000, splashRadius |-> 0, slowMultiplier |-> 0, slowDuration |-> 1000],
     [towerType |-> "cold", damage |-> 4000, splashRadius |-> 0, slowMultiplier |-> 1000, slowDuration |-> 1000],
     [towerType |-> "cold", damage |-> 4000, splashRadius |-> 0, slowMultiplier |-> 1200, slowDuration |-> 1000],
     [towerType |-> "cold", damage |-> 4000, splashRadius |-> 0, slowMultiplier |-> 500, slowDuration |-> 0]}

ChillStates ==
    {BenchState(p1, p2, carried, 0, 1, FALSE) :
        p1 \in ChillPayloadSet, p2 \in ChillPayloadSet, carried \in CarriedSlowSet}

InitChill ==
    /\ state \in ChillStates
    /\ ticks = 0
    /\ commands = 0

ChillTick == TickCall(ChillDeltaSet, MaxChillTicks)

NextChill == ChillTick

SpecChill == InitChill /\ [][NextChill]_vars

(***************************************************************************)
(* SpecRoute: the route of a map.  A map definition is loaded once, which  *)
(* expands its path cells and builds its polyline, and the engine then     *)
(* samples the route at the progress of an enemy; the state holds the      *)
(* definition, what loading it gave, and the last two samples taken.       *)
(***************************************************************************)
MaxSamples == 2

\* waypoint lists of map definitions: the relay's, a straight one, one
\* running up and to the left, one that repeats a waypoint, and lists that
\* are too short or have a diagonal pair
WaypointInputs ==
    {MAP_DEFINITIONS.relay.pathWaypoints,
     <<[col |-> 0, row |-> 0], [col |-> 4, row |-> 0]>>,
     <<[col |-> 5, row |-> 3], [col |-> 5, row |-> 0], [col |-> 2, row |-> 0]>>,
     <<[col |-> 1, row |-> 1], [col |-> 1, row |-> 1], [col |-> 3, row |-> 1]>>,
     <<>>,
     <<[col |-> 2, row |-> 2]>>,
     <<[col |-> 0, row |-> 0], [col |-> 3, row |-> 2]>>,
     <<[col |-> 0, row |-> 0], [col |-> 3, row |-> 0], [col |-> 5, row |-> 4]>>,
     <<[col |-> 4, row |-> 4], [col |-> 2, row |-> 1], [col |-> 2, row |-> 5]>>}

\* distances at which a route is sampled (mc): before, at and after both
\* ends, inside segments and on waypoints
SampleDistances(route) ==
    {-5000, -1, 0, 1, 1500, 2000, 2999, 3000, 4500}
       \cup {route.totalLength - 1, route.totalLength, route.totalLength + 1, route.totalLength + 100000}

InitRoute ==
    /\ \E waypoints \in WaypointInputs :
          state = [definition |-> [MAP_DEFINITIONS.relay EXCEPT !.pathWaypoints = waypoints],
                   loaded |-> <<>>,
                   samples |-> <<>>]
    /\ ticks = 0
    /\ commands = 0

\* the map is loaded once: loadMap from the definition on
LoadRoute ==
    /\ state.loaded = <<>>
    /\ state' = [state EXCEPT !.loaded = <<loadMapDefinition(state.definition)>>]
    /\ commands' = commands + 1
    /\ UNCHANGED ticks

\* the engine samples the route of the loaded map
SampleRoute ==
    /\ state.loaded # <<>>
    /\ ~Threw(state.loaded[1])
    /\ ticks < MaxSamples
    /\ \E distance \in SampleDistances(state.loaded[1].route) :
          state' = [state EXCEPT
                      !.samples = (IF @ = <<>> THEN <<>> ELSE <<@[Len(@)]>>)
                                     \o <<[distance |-> distance,
                                           point |-> samplePolyline(state.loaded[1].route, distance)]>>]
    /\ ticks' = ticks + 1
    /\ UNCHANGED commands

NextRoute == LoadRoute \/ SampleRoute

SpecRoute == InitRoute /\ [][NextRoute]_vars

(***************************************************************************)
(* Properties                                                              *)
(***************************************************************************)
Waves == loadGameLevel(state.levelId).waves

Running == state.status = "running"

\* the elapsed times of the ticks that the exploration of Spec takes from
\* the state: those of the host while the tick bound lasts
TickDeltas == IF ticks < MaxTicks THEN DeltaSet ELSE {}

\* C1: tickGame returns its input state, every field unchanged, whenever the
\* status is won or lost (for any elapsed time) or the elapsed time is <= 0;
\* so repeated ticks on a finished match keep yielding the same state.
C1_TickNoOp ==
    \A d \in DeltaSet : (state.status \in {"won", "lost"} \/ d <= 0) => tickGame(state, d) = state

\* a won match, on which every elapsed time of the host is a no-op
C1_Witness ==
    /\ state.status = "won"
    /\ \A d \in DeltaSet : tickGame(state, d) = state

\* C2: lives >= 0 in every reachable state, a running match has lives > 0,
\* and a tick whose core damage brings lives to 0 or below returns status
\* lost and lives exactly 0 in that same tick.
C2_LivesNonNegative ==
    /\ state.lives >= 0
    /\ Running => state.lives > 0
    /\ \A d \in TickDeltas :
          (Running /\ d > 0 /\ AfterMove(state, d).lives <= 0)
             => (tickGame(state, d).status = "lost" /\ tickGame(state, d).lives = 0)

\* a running match in which the next tick takes lives below 0
C2_Witness ==
    /\ Running
    /\ ticks < MaxTicks
    /\ \E d \in DeltaSet : d > 0 /\ AfterMove(state, d).lives < 0

\* the money a command or tick leaves is never below the money it found,
\* except for a build or an upgrade that found at least its cost
SpendIsCovered(before, after, cost) ==
    after.money < before.money => (cost # <<>> /\ before.money >= cost[1] /\ after.money = before.money - cost[1])

\* C3: money >= 0 in every reachable state; tickGame, sellTower and
\* cycleTowerTargetMode never decrease money; placeTower and upgradeTower
\* decrease it only when money >= the cost they debit.
C3_MoneyNeverNegative ==
    /\ state.money >= 0
    /\ \A d \in DeltaSet : tickGame(state, d).money >= state.money
    /\ \A id \in TowerIdSet :
          /\ sellTower(state, id).money >= state.money
          /\ cycleTowerTargetMode(state, id).money = state.money
          /\ SpendIsCovered(state, upgradeTower(state, id),
                            IF findTower(state, id) = <<>> THEN <<>>
                            ELSE getTowerUpgradeCost(findTower(state, id)[1]))
    /\ \A input \in PlaceInputs :
          SpendIsCovered(state, placeTower(state, input.cell, input.towerTypeId),
                         <<TOWER_TYPES[input.towerTypeId].cost>>)

\* a running match where a build on a free cell is refused for lack of money
C3_Witness ==
    /\ Running
    /\ \E input \in PlaceInputs :
          /\ isCellInBounds(input.cell, loadGameMap(state.mapId).cols, loadGameMap(state.mapId).rows)
          /\ input.cell \notin loadGameMap(state.mapId).pathCellKeys
          /\ \A i \in 1..Len(state.towers) : state.towers[i].cell # input.cell
          /\ state.money < TOWER_TYPES[input.towerTypeId].cost
          /\ placeTower(state, input.cell, input.towerTypeId) = state

\* the last wave's quota is spawned and no enemy is alive, in the locals r
LastWaveCleared(r) ==
    /\ r.waveIndex = Len(Waves) - 1
    /\ r.spawnedInWave >= Waves[r.waveIndex + 1].count
    /\ r.enemies = <<>>

\* C4: a tick in which lives drop to 0 or below while the last wave's quota
\* is spawned and no enemy remains returns status lost, never won, and does
\* not advance waveIndex.
C4_LossBeforeWin ==
    \A d \in TickDeltas :
       LET damaged == AfterDamage(state, d)
           after == tickGame(state, d)
       IN (Running /\ d > 0 /\ damaged.lives <= 0 /\ LastWaveCleared(damaged))
             => (after.status = "lost" /\ after.waveIndex = state.waveIndex)

\* a running match whose next tick loses the last lives to the last enemy
C4_Witness ==
    /\ Running
    /\ ticks < MaxTicks
    /\ \E d \in DeltaSet :
          d > 0 /\ AfterDamage(state, d).lives <= 0 /\ LastWaveCleared(AfterDamage(state, d))

\* C5: no command changes waveIndex; a tick leaves it or adds exactly 1, and
\* adds 1 only if, after the tick's damage resolution, the current wave's
\* quota is spawned and the enemy list is empty; so waveIndex never decreases.
C5_WaveIndexMonotone ==
    /\ \A input \in PlaceInputs :
          placeTower(state, input.cell, input.towerTypeId).waveIndex = state.waveIndex
    /\ \A id \in TowerIdSet :
          /\ upgradeTower(state, id).waveIndex = state.waveIndex
          /\ sellTower(state, id).waveIndex = state.waveIndex
          /\ cycleTowerTargetMode(state, id).waveIndex = state.waveIndex
    /\ \A d \in TickDeltas :
          LET after == tickGame(state, d)
              damaged == AfterDamage(state, d)
          IN \/ after.waveIndex = state.waveIndex
             \/ /\ after.waveIndex = state.waveIndex + 1
                /\ Running
                /\ d > 0
                /\ HasWave(Waves, state.waveIndex)
                /\ damaged.spawnedInWave >= Waves[state.waveIndex + 1].count
                /\ damaged.enemies = <<>>

\* a running match that has advanced to its second wave
C5_Witness ==
    /\ Running
    /\ state.waveIndex = 1
    /\ state.spawnedInWave = 0

\* the ids of the entities of a list
Ids(list) == {list[i].id : i \in 1..Len(list)}

\* no two entities of the list share an id, and every id is below the counter
UniqueBelow(list, counter) ==
    /\ \A i, j \in 1..Len(list) : list[i].id = list[j].id => i = j
    /\ \A i \in 1..Len(list) : list[i].id < counter

\* the states one call of the engine can return from the current state
CommandResults ==
    {placeTower(state, input.cell, input.towerTypeId) : input \in PlaceInputs}
       \cup {upgradeTower(state, id) : id \in TowerIdSet}
       \cup {sellTower(state, id) : id \in TowerIdSet}
       \cup {cycleTowerTargetMode(state, id) : id \in TowerIdSet}

CallResults == CommandResults \cup {tickGame(state, d) : d \in DeltaSet}

\* no counter goes down from before to after, and every entity that after
\* has and before had not carries an id at or above before's counter
FreshIds(before, after) ==
    /\ after.nextEnemyId >= before.nextEnemyId
    /\ after.nextTowerId >= before.nextTowerId
    /\ after.nextProjectileId >= before.nextProjectileId
    /\ after.nextEffectId >= before.nextEffectId
    /\ after.nextEventId >= before.nextEventId
    /\ \A id \in Ids(after.enemies) \ Ids(before.enemies) : id >= before.nextEnemyId
    /\ \A id \in Ids(after.towers) \ Ids(before.towers) : id >= before.nextTowerId
    /\ \A id \in Ids(after.projectiles) \ Ids(before.projectiles) : id >= before.nextProjectileId
    /\ \A id \in Ids(after.effects) \ Ids(before.effects) : id >= before.nextEffectId

OneEvent(after, type) ==
    /\ Len(after.recentEvents) = 1
    /\ after.recentEvents[1].type = type

\* after's effects are before's effects followed by one new effect
OneNewEffect(before, after) ==
    /\ Len(after.effects) = Len(before.effects) + 1
    /\ SubSeq(after.effects, 1, Len(before.effects)) = before.effects
    /\ after.effects[Len(after.effects)].id \notin Ids(before.effects)

\* C7: each of the four commands either returns the state unchanged or
\* returns a state whose recentEvents holds exactly one event of the
\* command's type (place, upgrade, sell, targetMode); a successful place,
\* upgrade or sell also appends exactly one new effect.
C7_CommandEventAndEffect ==
    /\ \A input \in PlaceInputs :
          LET after == placeTower(state, input.cell, input.towerTypeId)
          IN after = state \/ (OneEvent(after, "place") /\ OneNewEffect(state, after))
    /\ \A id \in TowerIdSet :
          /\ LET after == upgradeTower(state, id)
             IN after = state \/ (OneEvent(after, "upgrade") /\ OneNewEffect(state, after))
          /\ LET after == sellTower(state, id)
             IN after = state \/ (OneEvent(after, "sell") /\ OneNewEffect(state, after))
          /\ LET after == cycleTowerTargetMode(state, id)
             IN after = state \/ OneEvent(after, "targetMode")

\* a state returned by a successful upgrade: its one event and its new effect
C7_Witness ==
    /\ OneEvent(state, "upgrade")
    /\ state.effects # <<>>
    /\ state.effects[Len(state.effects)].id = state.nextEffectId - 1
    /\ \E i \in 1..Len(state.towers) : state.towers[i].level = 2

\* a tower stands on the cell
Occupied(cell) == \E i \in 1..Len(state.towers) : state.towers[i].cell = cell

\* the cell lies on the board of the state's map
OnBoard(cell) ==
    /\ cell.col >= 0 /\ cell.col < loadGameMap(state.mapId).cols
    /\ cell.row >= 0 /\ cell.row < loadGameMap(state.mapId).rows

\* the conditions under which a build succeeds
PlaceConditions(cell, towerTypeId) ==
    /\ Running
    /\ OnBoard(cell)
    /\ cell \notin loadGameMap(state.mapId).pathCellKeys
    /\ ~Occupied(cell)
    /\ state.money >= TOWER_TYPES[towerTypeId].cost

\* C8: placeTower succeeds exactly when the status is running, the cell is
\* in bounds, not a path cell, not occupied and money >= the archetype's
\* cost; on success it debits exactly that cost and appends exactly one
\* tower with a fresh id, level 1, target mode first and cooldown 0;
\* otherwise it returns the state unchanged.
C8_PlaceTower ==
    \A input \in PlaceInputs :
       LET after == placeTower(state, input.cell, input.towerTypeId)
           built == after.towers[Len(after.towers)]
       IN IF PlaceConditions(input.cell, input.towerTypeId)
          THEN /\ after.money = state.money - TOWER_TYPES[input.towerTypeId].cost
               /\ Len(after.towers) = Len(state.towers) + 1
               /\ SubSeq(after.towers, 1, Len(state.towers)) = state.towers
               /\ built.id \notin Ids(state.towers)
               /\ built.towerType = input.towerTypeId
               /\ built.cell = input.cell
               /\ built.level = 1
               /\ built.targetMode = "first"
               /\ built.cooldown = 0
          ELSE after = state

\* a state returned by a successful build while enemies are on the route
C8_Witness ==
    /\ OneEvent(state, "place")
    /\ Len(state.towers) = 2
    /\ state.towers[2].level = 1
    /\ state.enemies # <<>>

\* the cost of the tower's next level as the product the rules name
UpgradePrice(tower) ==
    RoundDiv(TOWER_TYPES[tower.towerType].cost * TOWER_UPGRADE_COST_MULTIPLIERS[tower.level], 100)

\* the conditions under which an upgrade of the tower with the id succeeds
UpgradeConditions(id) ==
    /\ Running
    /\ \E i \in 1..Len(state.towers) :
          /\ state.towers[i].id = id
          /\ state.towers[i].level < MAX_TOWER_LEVEL
          /\ state.money >= UpgradePrice(state.towers[i])

\* C9: upgradeTower succeeds exactly when the status is running, the tower
\* exists, its level is below the maximum level 3 and money >= round(base
\* cost x multiplier[level - 1]); on success it debits exactly that cost and
\* raises only that tower's level by 1; at the maximum level the upgrade
\* cost is null and the command is a no-op; no level exceeds the maximum.
C9_UpgradeTower ==
    /\ \A i \in 1..Len(state.towers) :
          /\ state.towers[i].level \in 1..MAX_TOWER_LEVEL
          /\ state.towers[i].level = MAX_TOWER_LEVEL =>
                /\ getTowerUpgradeCost(state.towers[i]) = <<>>
                /\ upgradeTower(state, state.towers[i].id) = state
    /\ \A id \in TowerIdSet :
          LET after == upgradeTower(state, id)
          IN IF UpgradeConditions(id)
             THEN /\ Len(after.towers) = Len(state.towers)
                  /\ \A i \in 1..Len(state.towers) :
                        IF state.towers[i].id = id
                        THEN /\ after.money = state.money - UpgradePrice(state.towers[i])
                             /\ after.towers[i] = [state.towers[i] EXCEPT !.level = @ + 1]
                        ELSE after.towers[i] = state.towers[i]
             ELSE after = state

\* a running match with a tower at the maximum level
C9_Witness ==
    /\ Running
    /\ \E i \in 1..Len(state.towers) : state.towers[i].level = MAX_TOWER_LEVEL

\* the entities of the list that the tower with the id did not fire
NotFiredBy(list, id) == SelectSeq(list, LAMBDA item : item.sourceTowerId # id)

\* C10: sellTower credits exactly the tower's sell value, removes exactly
\* that tower and every projectile and beam whose sourceTowerId is its id,
\* and leaves all other towers, projectiles and beams unchanged.
C10_SellTower ==
    \A i \in 1..Len(state.towers) :
       LET tower == state.towers[i]
           after == sellTower(state, tower.id)
       IN Running =>
             /\ after.money = state.money + getTowerSellValue(tower)
             /\ after.towers = SubSeq(state.towers, 1, i - 1) \o SubSeq(state.towers, i + 1, Len(state.towers))
             /\ after.projectiles = NotFiredBy(state.projectiles, tower.id)
             /\ after.beams = NotFiredBy(state.beams, tower.id)

\* a running match with a projectile in flight from one tower and the beam
\* of another, where the player can still sell
C10_Witness ==
    /\ Running
    /\ commands < MaxBuildCommands
    /\ \E p \in 1..Len(state.projectiles), b \in 1..Len(state.beams) :
          state.projectiles[p].sourceTowerId # state.beams[b].sourceTowerId

\* the target mode that follows the mode in the cycle first, last, strong
ModeAfter(mode) ==
    IF mode = "first" THEN "last" ELSE IF mode = "last" THEN "strong" ELSE "first"

\* C11: cycleTowerTargetMode advances only the named tower's targetMode, in
\* the cyclic order first -> last -> strong -> first, so that three
\* successive applications restore the original mode; it changes no money,
\* no level, no cooldown and no other tower.
C11_CycleTargetMode ==
    \A i \in 1..Len(state.towers) :
       LET tower == state.towers[i]
           once == cycleTowerTargetMode(state, tower.id)
           twice == cycleTowerTargetMode(once, tower.id)
           thrice == cycleTowerTargetMode(twice, tower.id)
       IN Running =>
             /\ once.money = state.money
             /\ Len(once.towers) = Len(state.towers)
             /\ once.towers[i] = [tower EXCEPT !.targetMode = ModeAfter(tower.targetMode)]
             /\ \A j \in 1..Len(state.towers) : j # i => once.towers[j] = state.towers[j]
             /\ twice.towers[i].targetMode = ModeAfter(ModeAfter(tower.targetMode))
             /\ twice.towers[i].targetMode \notin {tower.targetMode, once.towers[i].targetMode}
             /\ thrice.towers = state.towers
             /\ thrice.money = state.money

\* a tower that was cycled twice, to the mode strong
C11_Witness ==
    /\ Running
    /\ OneEvent(state, "targetMode")
    /\ \E i \in 1..Len(state.towers) : state.towers[i].targetMode = "strong"

\* after's recentEvents are the events numbered from before's counter up to
\* after's counter, in order: the events of the call from before to after
EventsOfCall(before, after) ==
    /\ Len(after.recentEvents) = after.nextEventId - before.nextEventId
    /\ \A k \in 1..Len(after.recentEvents) :
          after.recentEvents[k].id = before.nextEventId + k - 1

\* C12 as stated: after every call to tickGame or to a command, recentEvents
\* of the returned state holds exactly the events generated by that call and
\* nothing from earlier calls.
C12_EveryCallReturnsItsEvents ==
    \A after \in CallResults : EventsOfCall(state, after)

\* C12, amended: after every call to tickGame or to a command that returns a
\* changed state, recentEvents of the returned state holds exactly the events
\* generated by that call and nothing from earlier calls; a call that is a
\* no-op returns its input state, recentEvents included.
C12_RecentEventsOfLastTransition ==
    \A after \in CallResults : after = state \/ EventsOfCall(state, after)

\* a state that holds events, and a tick of it that generates none and
\* returns none
C12_Witness ==
    /\ Running
    /\ ticks < MaxBuildTicks
    /\ state.recentEvents # <<>>
    /\ \E d \in BuildDeltaSet :
          tickGame(state, d) # state /\ tickGame(state, d).recentEvents = <<>>

\* the route of the state's map
Route == loadGameMap(state.mapId).route

\* the enemy, moved for d at its speed and slow, is at or past the route's end
ReachesCore(enemy, d) ==
    LET slowed == enemy.slowTimeRemaining - d > 0
        pace == IF slowed THEN (enemy.speed * enemy.slowMultiplier) \div 1000 ELSE enemy.speed
    IN enemy.progress + (pace * d) \div 1000 >= Route.totalLength

\* the enemies a tick of d moves: those of the state and those it spawns
Marching(d) == AfterSpawn(state, d).enemies

\* the sum of amount(enemy) over the enemies of the list that satisfy among
Total(list, among(_), amount(_)) ==
    SumSeq([i \in 1..Len(list) |-> IF among(list[i]) THEN amount(list[i]) ELSE 0])

\* C14: an enemy whose progress reaches or passes the route's total length
\* during a tick debits lives by exactly its coreDamage, exactly once, is
\* absent from the returned enemy list, and yields no reward, no damage and
\* no death effect in that tick.
C14_CoreReach ==
    \A d \in TickDeltas :
       (Running /\ d > 0) =>
          LET after == tickGame(state, d)
              marching == Marching(d)
              resolved == AfterProjectiles(state, d)
              left == Ids(after.enemies)
              debit == Total(marching, LAMBDA e : ReachesCore(e, d), LAMBDA e : e.coreDamage)
              killed(e) == ~ReachesCore(e, d) /\ e.id \notin left
          IN /\ after.lives = Max(0, state.lives - debit)
             /\ after.money = state.money + Total(marching, killed, LAMBDA e : e.reward)
             /\ \A i \in 1..Len(marching) :
                   ReachesCore(marching[i], d) =>
                      /\ marching[i].id \notin left
                      /\ marching[i].id \notin DOMAIN resolved.damageByEnemy
             /\ after.nextEffectId - state.nextEffectId
                   = (after.nextEnemyId - state.nextEnemyId) + Len(resolved.hitEffects)

\* a running match one tick before an enemy of core damage 2 reaches the
\* core and leaves lives to go on with
C14_Witness ==
    /\ Running
    /\ ticks < MaxTicks
    /\ \E d \in DeltaSet :
          /\ d > 0
          /\ \E i \in 1..Len(Marching(d)) :
                ReachesCore(Marching(d)[i], d) /\ Marching(d)[i].coreDamage = 2
          /\ tickGame(state, d).lives > 0

\* the number of enemies a tick of d spawns: none while the wave's start
\* delay runs or after the quota; else one for every spawn interval that
\* the inter-spawn timer, less d, lies at or below 0, up to the quota
SpawnsDue(d) ==
    IF ~HasWave(Waves, state.waveIndex) \/ state.timeUntilWaveStart > 0 THEN 0
    ELSE LET wave == Waves[state.waveIndex + 1]
             timer == state.timeUntilNextSpawn - d
         IN IF timer > 0 THEN 0
            ELSE Min(wave.count - state.spawnedInWave, (-timer) \div wave.spawnInterval + 1)

\* the number of events of the type in the list
CountEvents(events, type) == Cardinality({k \in 1..Len(events) : events[k].type = type})

\* C15: in a tick entered with the wave's start delay at 0, enemies spawn
\* while the inter-spawn timer (less dt) is <= 0 and the quota is not
\* reached, so a dt of several spawn intervals spawns several enemies in
\* the one tick, each with a distinct new id, its own spawn event and its
\* own spawn effect; with spawnInterval 0.1, count 10, timer 0 and dt 2.0
\* exactly 10 enemies and 10 spawn events result.
C15_SpawnBurst ==
    /\ \A d \in BenchDeltaSet :
          Running =>
             LET after == tickGame(state, d)
                 spawned == AfterSpawn(state, d)
                 n == SpawnsDue(d)
             IN /\ after.nextEnemyId = state.nextEnemyId + n
                /\ Len(spawned.enemies) = Len(state.enemies) + n
                /\ \A k \in 1..n :
                      /\ spawned.enemies[Len(state.enemies) + k].id = state.nextEnemyId + k - 1
                      /\ spawned.enemies[Len(state.enemies) + k].progress = 0
                      /\ spawned.spawnedEffects[k].id = state.nextEffectId + k - 1
                      /\ spawned.spawnedEffects[k].kind = "spawn"
                /\ Len(spawned.spawnedEffects) = n
                /\ CountEvents(after.recentEvents, "spawn") = n
    /\ state = createInitialGameState("burst") =>
          /\ Len(tickGame(state, 2000).enemies) = 10
          /\ Cardinality(Ids(tickGame(state, 2000).enemies)) = 10
          /\ CountEvents(tickGame(state, 2000).recentEvents, "spawn") = 10

\* the burst level after its one tick of 2 s: ten sparks, ten spawn events
C15_Witness ==
    /\ state.levelId = "burst"
    /\ state.elapsed = 2000
    /\ ticks = 1
    /\ Len(state.enemies) = 10
    /\ CountEvents(state.recentEvents, "spawn") = 10

\* the enemy's squared distance to the centre of the tower's cell is at most
\* the square of the tower's range at its level
WithinRange(enemy, tower) ==
    LET dx == enemy.position.x - (tower.cell.col * 1000 + 500)
        dy == enemy.position.y - (tower.cell.row * 1000 + 500)
    IN dx * dx + dy * dy <= getTowerStats(tower).range * getTowerStats(tower).range

\* under the mode the enemy a is preferred to b, or they tie on both keys
PreferredOrTied(mode, a, b) ==
    IF mode = "first"
    THEN a.progress > b.progress \/ (a.progress = b.progress /\ a.health >= b.health)
    ELSE IF mode = "last"
    THEN a.progress < b.progress \/ (a.progress = b.progress /\ a.health >= b.health)
    ELSE a.health > b.health \/ (a.health = b.health /\ a.progress >= b.progress)

TiedOnBoth(a, b) == a.progress = b.progress /\ a.health = b.health

\* the choice among the enemies of the list is the one the modes define
RightTarget(enemies, tower, mode) ==
    LET chosen == selectTarget(enemies, tower.cell, getTowerStats(tower), mode)
        candidates == {i \in 1..Len(enemies) : WithinRange(enemies[i], tower)}
    IN IF candidates = {} THEN chosen = 0
       ELSE /\ chosen \in candidates
            /\ \A j \in candidates :
                  /\ PreferredOrTied(mode, enemies[chosen], enemies[j])
                  /\ TiedOnBoth(enemies[chosen], enemies[j]) => chosen <= j

\* the enemy lists a tower chooses from: the state's, and the moved lists of
\* the ticks the host may run
TargetLists ==
    {state.enemies} \cup
       (IF Running THEN {AfterMove(state, d).enemies : d \in {d \in DeltaSet : d > 0}} ELSE {})

\* C16: target selection considers only the enemies whose squared distance to
\* the tower centre is <= range squared and returns, in mode first, the
\* greatest progress (tie: higher health), in mode last the least progress
\* (tie: higher health), in mode strong the highest health (tie: greater
\* progress); of candidates tied on both keys always the earliest in the
\* enemy list; and no target when no enemy is in range.
C16_TargetSelection ==
    \A enemies \in TargetLists :
       \A i \in 1..Len(state.towers) :
          \A k \in 1..Len(TARGET_MODE_ORDER) :
             RightTarget(enemies, state.towers[i], TARGET_MODE_ORDER[k])

\* a running match whose next tick moves two enemies of equal progress and
\* equal health into the range of a tower
C16_Witness ==
    /\ Running
    /\ ticks < MaxTicks
    /\ \E enemies \in TargetLists :
          \E a, b \in 1..Len(enemies) :
             /\ a < b
             /\ TiedOnBoth(enemies[a], enemies[b])
             /\ \E i \in 1..Len(state.towers) :
                   WithinRange(enemies[a], state.towers[i]) /\ WithinRange(enemies[b], state.towers[i])

\* the enemies after the movement of a tick of d
Moved(d) == AfterMove(state, d).enemies

\* the projectiles a tick of d resolves: those in flight and those it fires
Incoming(d) == state.projectiles \o AfterTowers(state, d).spawnedProjectiles

\* the enemy of the moved list that the projectile is locked on, if any
LockedOn(projectile, moved) == {e \in SeqToSet(moved) : e.id = projectile.targetEnemyId}

\* the squared distance of two points (mc squared)
DistanceSquared(a, b) == (a.x - b.x) * (a.x - b.x) + (a.y - b.y) * (a.y - b.y)

\* the projectile covers the distance to its target within d
Lands(projectile, moved, d) ==
    \E target \in LockedOn(projectile, moved) :
       LET travel == (projectile.speed * d) \div 1000
       IN travel * travel >= DistanceSquared(target.position, projectile.position)

\* the landing projectile damages the enemy: its locked target, or with a
\* splash radius every enemy within that radius of the target's position
Strikes(projectile, enemy, moved, d) ==
    /\ Lands(projectile, moved, d)
    /\ \E target \in LockedOn(projectile, moved) :
          IF projectile.splashRadius > 0
          THEN DistanceSquared(enemy.position, target.position)
                  <= projectile.splashRadius * projectile.splashRadius
          ELSE enemy.id = target.id

\* the damage the projectiles of the tick owe the enemy
DamageOwed(enemy, moved, incoming, d) ==
    SumSeq([k \in 1..Len(incoming) |->
               IF Strikes(incoming[k], enemy, moved, d) THEN incoming[k].damage ELSE 0])

\* C17: a splash projectile that impacts in a tick adds its damage to every
\* enemy (as moved in that tick) whose distance from the impact point, the
\* locked target's current position, is <= the splash radius, not only to
\* the locked target; a non-splash projectile adds damage only to its
\* locked target.
C17_SplashDamage ==
    \A d \in BenchDeltaSet :
       Running =>
          LET moved == Moved(d)
              incoming == Incoming(d)
              damageByEnemy == AfterProjectiles(state, d).damageByEnemy
          IN \A i \in 1..Len(moved) :
                MapGet(damageByEnemy, moved[i].id, 0) = DamageOwed(moved[i], moved, incoming, d)

\* a tick in which a splash projectile lands on its target, strikes another
\* enemy as well and spares a third
C17_Witness ==
    /\ Running
    /\ ticks < MaxBenchTicks
    /\ \E d \in BenchDeltaSet :
          LET moved == Moved(d)
              incoming == Incoming(d)
          IN \E k \in 1..Len(incoming) :
                /\ incoming[k].splashRadius > 0
                /\ \E a, b \in 1..Len(moved) :
                      /\ moved[a].id # incoming[k].targetEnemyId
                      /\ Strikes(incoming[k], moved[a], moved, d)
                      /\ ~Strikes(incoming[k], moved[b], moved, d)

SetMin(S) == CHOOSE x \in S : \A y \in S : x <= y

SetMax(S) == CHOOSE x \in S : \A y \in S : x >= y

\* the projectiles of the tick that strike the enemy with a slow payload
SlowsOn(enemy, moved, incoming, d) ==
    {k \in 1..Len(incoming) :
        /\ Strikes(incoming[k], enemy, moved, d)
        /\ incoming[k].slowDuration > 0
        /\ incoming[k].slowMultiplier > 0
        /\ incoming[k].slowMultiplier < 1000}

\* C18: slow applications combine by minimum multiplier and maximum
\* duration, never additively: the slow payloads that hit one enemy in the
\* same tick, in any order, merged with the slow the enemy already carries,
\* leave the surviving enemy with the smallest multiplier and the longest
\* remaining duration among them; multipliers 0.6 and 0.4 with durations
\* 2.0 and 1.0 on an unslowed enemy give multiplier 0.4 and duration 2.0.
C18_SlowMerge ==
    \A d \in BenchDeltaSet :
       Running =>
          LET moved == Moved(d)
              incoming == Incoming(d)
              after == tickGame(state, d)
          IN \A i \in 1..Len(moved) :
                \A j \in 1..Len(after.enemies) :
                   after.enemies[j].id = moved[i].id =>
                      LET enemy == moved[i]
                          survivor == after.enemies[j]
                          slows == SlowsOn(enemy, moved, incoming, d)
                          multipliers == {incoming[k].slowMultiplier : k \in slows}
                                            \cup (IF enemy.slowTimeRemaining > 0
                                                  THEN {enemy.slowMultiplier} ELSE {})
                          durations == {incoming[k].slowDuration : k \in slows}
                                          \cup {enemy.slowTimeRemaining}
                      IN /\ slows = {} =>
                               /\ survivor.slowMultiplier = enemy.slowMultiplier
                               /\ survivor.slowTimeRemaining = enemy.slowTimeRemaining
                         /\ slows # {} =>
                               /\ survivor.slowMultiplier = SetMin(multipliers)
                               /\ survivor.slowTimeRemaining = SetMax(durations)
                         /\ (multipliers = {600, 400} /\ durations = {0, 2000, 1000}) =>
                               /\ survivor.slowMultiplier = 400
                               /\ survivor.slowTimeRemaining = 2000

\* an enemy that two slows of one tick left with the multiplier of the one
\* and the duration of the other
C18_Witness ==
    /\ ticks = 1
    /\ \E i \in 1..Len(state.enemies) :
          /\ state.enemies[i].slowMultiplier = 400
          /\ state.enemies[i].slowTimeRemaining = 2000

\* the projectiles of the tick that land
Landing(moved, incoming, d) == {k \in 1..Len(incoming) : Lands(incoming[k], moved, d)}

\* C19: the emission budgets of a tick throttle only cosmetics: a tick emits
\* at most 3 hit events, at most 4 fire events and at most 8 impact effects,
\* but every projectile that impacts in the tick still applies its damage
\* and its slow payload, however many impacts occur and whatever remains of
\* the budgets.
C19_BudgetsThrottleCosmeticsOnly ==
    \A d \in BenchDeltaSet :
       Running =>
          LET moved == Moved(d)
              incoming == Incoming(d)
              after == tickGame(state, d)
              landed == Cardinality(Landing(moved, incoming, d))
              fired == Len(incoming) - Len(state.projectiles)
          IN /\ CountEvents(after.recentEvents, "hit") = Min(3, landed)
             /\ CountEvents(after.recentEvents, "fire") = Min(4, fired)
             /\ Len(AfterProjectiles(state, d).hitEffects) = Min(8, landed)
             /\ \A i \in 1..Len(moved) :
                   LET enemy == moved[i]
                       owed == DamageOwed(enemy, moved, incoming, d)
                       slows == SlowsOn(enemy, moved, incoming, d)
                   IN IF owed >= enemy.health
                      THEN enemy.id \notin Ids(after.enemies)
                      ELSE \E j \in 1..Len(after.enemies) :
                              /\ after.enemies[j].id = enemy.id
                              /\ after.enemies[j].health = enemy.health - owed
                              /\ \A k \in slows :
                                    /\ after.enemies[j].slowMultiplier <= incoming[k].slowMultiplier
                                    /\ after.enemies[j].slowTimeRemaining >= incoming[k].slowDuration

\* the number of projectiles that land in the tick before the k-th one
LandedBefore(k, moved, incoming, d) ==
    Cardinality({l \in Landing(moved, incoming, d) : l < k})

\* a tick with more than 8 impacts in which an enemy survives that a slow
\* payload strikes after the hit-event budget is spent and a further
\* projectile strikes after the impact-effect budget is spent
C19_Witness ==
    /\ Running
    /\ ticks < MaxBenchTicks
    /\ \E d \in BenchDeltaSet :
          LET moved == Moved(d)
              incoming == Incoming(d)
          IN \E i \in 1..Len(moved) :
                /\ DamageOwed(moved[i], moved, incoming, d) < moved[i].health
                /\ \E k \in SlowsOn(moved[i], moved, incoming, d) :
                      LandedBefore(k, moved, incoming, d) >= 3
                /\ \E k \in 1..Len(incoming) :
                      /\ Strikes(incoming[k], moved[i], moved, d)
                      /\ LandedBefore(k, moved, incoming, d) >= 8

\* no enemy that a tick of d moves reaches the core in it
NoneReachesCore(d) == \A i \in 1..Len(Marching(d)) : ~ReachesCore(Marching(d)[i], d)

\* C20 as stated: for a running state with zero towers (and so zero enemies
\* in range of any tower) tickGame(state, dt > 0) leaves money, lives and
\* the identities of the entities in the state untouched.
C20_NoTowerTickConserves ==
    \A d \in DeltaSet :
       (Running /\ d > 0 /\ state.towers = <<>>) =>
          /\ tickGame(state, d).money = state.money
          /\ tickGame(state, d).lives = state.lives
          /\ Ids(state.enemies) \subseteq Ids(tickGame(state, d).enemies)

\* C20, amended: for a running state with zero towers (and so zero enemies
\* in range of any tower) and a dt > 0 in which no enemy reaches the core,
\* tickGame changes only time-dependent fields (the clock, the wave timers
\* and what they spawn, the enemies' progress and slow timers, the effect
\* ages) and leaves money, lives, status, wave index and the identities of
\* the entities in the state untouched: every enemy of the state is
\* returned with its id, type and health, and no tower, projectile or beam
\* appears.
C20_NoDamageTickConserves ==
    \A d \in DeltaSet :
       (Running /\ d > 0 /\ state.towers = <<>> /\ NoneReachesCore(d)) =>
          LET after == tickGame(state, d)
          IN /\ after.money = state.money
             /\ after.lives = state.lives
             /\ after.status = state.status
             /\ after.waveIndex = state.waveIndex
             /\ after.towers = <<>> /\ after.projectiles = state.projectiles /\ after.beams = <<>>
             /\ after.nextTowerId = state.nextTowerId
             /\ after.nextProjectileId = state.nextProjectileId
             /\ Len(after.enemies) >= Len(state.enemies)
             /\ \A i \in 1..Len(state.enemies) :
                   /\ after.enemies[i].id = state.enemies[i].id
                   /\ after.enemies[i].enemyType = state.enemies[i].enemyType
                   /\ after.enemies[i].health = state.enemies[i].health
                   /\ after.enemies[i].progress > state.enemies[i].progress
             /\ \A i \in (Len(state.enemies) + 1)..Len(after.enemies) :
                   after.enemies[i].id >= state.nextEnemyId
             /\ after.elapsed = state.elapsed + d

\* a running match without towers and with an enemy on the route, and a
\* tick in which no enemy reaches the core
C20_Witness ==
    /\ Running
    /\ ticks < MaxTicks
    /\ state.towers = <<>>
    /\ state.enemies # <<>>
    /\ \E d \in DeltaSet : d > 0 /\ NoneReachesCore(d)

\* what was paid for the tower: its archetype's cost and the price of every
\* upgrade that took it to its level
Invested(tower) ==
    LET cost == TOWER_TYPES[tower.towerType].cost
    IN cost + (IF tower.level >= 2 THEN RoundDiv(cost * 65, 100) ELSE 0)
            + (IF tower.level >= 3 THEN RoundDiv(cost * 95, 100) ELSE 0)

\* C21: the sell value of a tower is max(1, round(0.7 x (original cost + the
\* upgrade costs paid to reach its level))), a half rounding up as in
\* round(115.5) = 116, and the money sellTower credits equals this value.
C21_SellValue ==
    \A i \in 1..Len(state.towers) :
       LET tower == state.towers[i]
           value == Max(1, RoundDiv(7 * Invested(tower), 10))
       IN /\ getTowerSellValue(tower) = value
          /\ Running => sellTower(state, tower.id).money = state.money + value

\* a map was loaded without an error and its route was sampled
Sampled == state.loaded # <<>> /\ ~Threw(state.loaded[1]) /\ state.samples # <<>>

\* the length of the leg from waypoint k to waypoint k + 1 (mc)
LegLength(waypoints, k) ==
    1000 * (Abs(waypoints[k + 1].col - waypoints[k].col) + Abs(waypoints[k + 1].row - waypoints[k].row))

\* the length of the route up to waypoint k (mc)
RECURSIVE LengthUpTo(_, _)
LengthUpTo(waypoints, k) ==
    IF k <= 1 THEN 0 ELSE LengthUpTo(waypoints, k - 1) + LegLength(waypoints, k - 1)

\* the point lies on the leg from waypoint k to waypoint k + 1
OnLeg(waypoints, k, point) ==
    LET from == cellCenter(waypoints[k])
        to == cellCenter(waypoints[k + 1])
    IN /\ point.x >= Min(from.x, to.x) /\ point.x <= Max(from.x, to.x)
       /\ point.y >= Min(from.y, to.y) /\ point.y <= Max(from.y, to.y)

\* the distances along the route at which the point lies
ArcPositions(waypoints, point) ==
    {LengthUpTo(waypoints, k) + Abs(point.x - cellCenter(waypoints[k]).x)
                              + Abs(point.y - cellCenter(waypoints[k]).y) :
        k \in {j \in 1..(Len(waypoints) - 1) : OnLeg(waypoints, j, point)}}

\* C22: samplePolyline is clamped and monotone: a distance <= 0 gives the
\* centre of the first waypoint, a distance >= totalLength the centre of
\* the last one, a distance in between the point that lies exactly that far
\* along the route, and of two distances in that span the point of the
\* larger one is never behind the point of the smaller one.
C22_SampleClampedMonotone ==
    Sampled =>
       LET waypoints == state.definition.pathWaypoints
           total == LengthUpTo(waypoints, Len(waypoints))
           last == state.samples[Len(state.samples)]
           first == state.samples[1]
       IN /\ last.distance <= 0 => last.point = cellCenter(waypoints[1])
          /\ last.distance >= total => last.point = cellCenter(waypoints[Len(waypoints)])
          /\ (last.distance >= 0 /\ last.distance <= total) =>
                ArcPositions(waypoints, last.point) = {last.distance}
          /\ (0 <= first.distance /\ first.distance < last.distance /\ last.distance <= total) =>
                \A a1 \in ArcPositions(waypoints, first.point) :
                   \A a2 \in ArcPositions(waypoints, last.point) : a1 < a2

\* a route sampled at two distances inside it, the points lying on
\* different legs
C22_Witness ==
    /\ Sampled
    /\ Len(state.samples) = 2
    /\ 0 < state.samples[1].distance
    /\ state.samples[1].distance < state.samples[2].distance
    /\ state.samples[2].distance < state.loaded[1].route.totalLength
    /\ state.samples[1].point.x # state.samples[2].point.x
    /\ state.samples[1].point.y # state.samples[2].point.y

\* the number of enemies the whole schedule spawns
RECURSIVE ScheduleCount(_)
ScheduleCount(waves) == IF waves = <<>> THEN 0 ELSE Head(waves).count + ScheduleCount(Tail(waves))

\* C23: status becomes won exactly in the tick in which, with lives > 0, no
\* further wave exists in the schedule (waveIndex has reached the number
\* of waves) and zero enemies remain alive; a state is never won while an
\* enemy is alive or while a wave of the schedule has not been fully
\* spawned.
C23_WonExactly ==
    /\ state.status = "won" =>
          /\ state.enemies = <<>>
          /\ state.lives > 0
          /\ state.waveIndex = Len(Waves)
          /\ state.nextEnemyId - 1 = ScheduleCount(Waves)
    /\ Running =>
          /\ \A d \in TickDeltas :
                LET after == tickGame(state, d)
                IN after.status = "won" <=>
                      /\ d > 0
                      /\ after.lives > 0
                      /\ after.waveIndex >= Len(Waves)
                      /\ after.enemies = <<>>

\* a match won by the last tick: the towers killed the last enemy of the
\* last wave, or the last enemies reached the core with lives to spare
C23_Witness ==
    /\ state.status = "won"
    /\ ticks > 0
    /\ state.nextEnemyId > 1

\* the tower of the list with the id
TowerWithId(towers, id) == CHOOSE tower \in SeqToSet(towers) : tower.id = id

\* every tower that both states have stands on the same cell in both
CellsKept(before, after) ==
    \A id \in Ids(before.towers) \cap Ids(after.towers) :
       TowerWithId(after.towers, id).cell = TowerWithId(before.towers, id).cell

\* C24: towers are created only by placeTower and destroyed only by
\* sellTower: tickGame never adds or removes a tower and never changes a
\* tower's id, type, cell, level or targetMode; upgradeTower and
\* cycleTowerTargetMode keep the set of towers, placeTower removes none and
\* sellTower adds none and removes at most the tower it names; and no
\* operation changes the cell of an existing tower.
C24_TowersPlacedAndSoldOnly ==
    /\ \A d \in DeltaSet :
          LET after == tickGame(state, d)
          IN /\ Len(after.towers) = Len(state.towers)
             /\ \A i \in 1..Len(state.towers) :
                   /\ after.towers[i].id = state.towers[i].id
                   /\ after.towers[i].towerType = state.towers[i].towerType
                   /\ after.towers[i].cell = state.towers[i].cell
                   /\ after.towers[i].level = state.towers[i].level
                   /\ after.towers[i].targetMode = state.towers[i].targetMode
    /\ \A id \in TowerIdSet :
          LET upgraded == upgradeTower(state, id)
              cycled == cycleTowerTargetMode(state, id)
              sold == sellTower(state, id)
          IN /\ Ids(upgraded.towers) = Ids(state.towers) /\ CellsKept(state, upgraded)
             /\ Ids(cycled.towers) = Ids(state.towers) /\ CellsKept(state, cycled)
             /\ Ids(sold.towers) \subseteq Ids(state.towers)
             /\ Ids(state.towers) \ Ids(sold.towers) \subseteq {id}
             /\ CellsKept(state, sold)
    /\ \A input \in PlaceInputs :
          LET placed == placeTower(state, input.cell, input.towerTypeId)
          IN Ids(state.towers) \subseteq Ids(placed.towers) /\ CellsKept(state, placed)

\* a running match with a tower that has fired and is cooling down, an
\* enemy on the route, and a tick that changes the state
C24_Witness ==
    /\ Running
    /\ state.enemies # <<>>
    /\ \E i \in 1..Len(state.towers) : state.towers[i].cooldown > 250
    /\ Len(state.towers) = 2
    /\ ticks < MaxBuildTicks

\* the waypoint list of the definition is too short for a route
TooShort == Len(state.definition.pathWaypoints) < 2

\* some consecutive pair of waypoints differs in both column and row
HasDiagonalPair ==
    LET waypoints == state.definition.pathWaypoints
    IN \E i \in 1..(Len(waypoints) - 1) :
          waypoints[i].col # waypoints[i + 1].col /\ waypoints[i].row # waypoints[i + 1].row

\* C25 as stated: buildPolylineData fails with an error when given fewer
\* than 2 waypoints, and also when any consecutive pair of waypoints is not
\* axis-aligned; it never returns a route for such input.
C25_BuildPolylineDataRejects ==
    (TooShort \/ HasDiagonalPair) => Threw(buildPolylineData(state.definition.pathWaypoints))

\* C25, amended: route construction (loadMap: expandPathCells followed by
\* buildPolylineData) fails with an error when given fewer than 2
\* waypoints, where buildPolylineData throws, and also when any consecutive
\* pair of waypoints is not axis-aligned, where expandPathCells throws; it
\* never returns a route for such input.
C25_RouteConstructionRejects ==
    /\ TooShort => Threw(buildPolylineData(state.definition.pathWaypoints))
    /\ HasDiagonalPair => Threw(expandPathCells(state.definition.pathWaypoints))
    /\ state.loaded # <<>> =>
          ((TooShort \/ HasDiagonalPair) => Threw(state.loaded[1]))

\* a map definition with a diagonal pair among three waypoints has been
\* loaded, and the load threw
C25_Witness ==
    /\ state.loaded # <<>>
    /\ Threw(state.loaded[1])
    /\ HasDiagonalPair
    /\ ~TooShort

\* C26: a tick entered with timeUntilWaveStart > 0 only decrements that
\* delay by dt (floored at 0) and spawns no enemy in that tick, even when
\* dt exceeds the remaining delay: the wave's counters and inter-spawn
\* timer stay, no enemy, spawn event or spawn effect is added; spawning
\* can begin only in a later tick entered with the delay at 0.
C26_StartDelayHoldsSpawning ==
    \A d \in DeltaSet :
       (Running /\ d > 0 /\ state.timeUntilWaveStart > 0) =>
          LET spawned == AfterSpawn(state, d)
              after == tickGame(state, d)
          IN /\ spawned.timeUntilWaveStart = Max(0, state.timeUntilWaveStart - d)
             /\ spawned.enemies = state.enemies
             /\ spawned.spawnedEffects = <<>>
             /\ after.timeUntilWaveStart = Max(0, state.timeUntilWaveStart - d)
             /\ after.timeUntilNextSpawn = state.timeUntilNextSpawn
             /\ after.spawnedInWave = state.spawnedInWave
             /\ after.waveIndex = state.waveIndex
             /\ after.nextEnemyId = state.nextEnemyId
             /\ Ids(after.enemies) \subseteq Ids(state.enemies)
             /\ CountEvents(after.recentEvents, "spawn") = 0
             /\ \A k \in 1..Len(after.effects) : after.effects[k].kind # "spawn" \/ after.effects[k].id < state.nextEffectId

\* a running match waiting for the start of a wave, and a tick longer than
\* what is left of the delay
C26_Witness ==
    /\ Running
    /\ ticks < MaxBuildTicks
    /\ state.timeUntilWaveStart > 0
    /\ \E d \in DeltaSet : d > state.timeUntilWaveStart

\* where a tick of d takes the enemy along the route
ProgressAfter(enemy, d) ==
    LET slowed == enemy.slowTimeRemaining - d > 0
        pace == IF slowed THEN (enemy.speed * enemy.slowMultiplier) \div 1000 ELSE enemy.speed
    IN enemy.progress + (pace * d) \div 1000

\* the ids of the enemies of the list that a tick of d leaves on the route
\* and within the tower's range, measured where the tick has moved them
InRangeAfterMove(marching, tower, d) ==
    {marching[i].id : i \in {j \in 1..Len(marching) :
        /\ ~ReachesCore(marching[j], d)
        /\ DistanceSquared(samplePolyline(Route, ProgressAfter(marching[j], d)), cellCenter(tower.cell))
              <= getTowerStats(tower).range * getTowerStats(tower).range}}

\* the ids of the enemies the tower aims at in the locals r: the targets of
\* the projectiles it fired and of its beam
AimedAt(r, tower) ==
    {r.spawnedProjectiles[k].targetEnemyId :
        k \in {j \in 1..Len(r.spawnedProjectiles) : r.spawnedProjectiles[j].sourceTowerId = tower.id}}
    \cup {CHOOSE id \in Ids(r.enemies) :
             \E e \in SeqToSet(r.enemies) : e.id = id /\ e.position = r.activeBeams[k].end :
          k \in {j \in 1..Len(r.activeBeams) : r.activeBeams[j].sourceTowerId = tower.id}}

\* C27: within one tick the steps run in the order spawn, move, target and
\* fire, projectile resolution, damage resolution: an enemy spawned in the
\* tick is moved in it; towers select targets and test range against the
\* positions after this tick's movement, enemies spawned in this tick
\* included; a projectile fired in the tick is resolved in it; and an enemy
\* removed by reaching the core in this tick is never targeted, hit or
\* rewarded.
C27_StepOrder ==
    \A d \in TickDeltas :
       (Running /\ d > 0) =>
          LET marching == Marching(d)
              resolved == AfterProjectiles(state, d)
              finished == DamageStep(resolved)
              leaked == {marching[i].id : i \in {j \in 1..Len(marching) : ReachesCore(marching[j], d)}}
              killed(e) == ~ReachesCore(e, d) /\ e.id \notin Ids(finished.enemies)
          IN /\ \A i \in 1..Len(finished.enemies) :
                   finished.enemies[i].id >= state.nextEnemyId =>
                      finished.enemies[i].progress = (finished.enemies[i].speed * d) \div 1000
             /\ \A i \in 1..Len(state.towers) :
                   LET tower == state.towers[i]
                       inRange == InRangeAfterMove(marching, tower, d)
                   IN /\ AimedAt(resolved, tower) \subseteq inRange
                      /\ (inRange # {} /\ tower.cooldown - d <= 0) => AimedAt(resolved, tower) # {}
             /\ \A k \in 1..Len(resolved.spawnedProjectiles) :
                   \A j \in 1..Len(resolved.nextProjectiles) :
                      resolved.nextProjectiles[j].id = resolved.spawnedProjectiles[k].id =>
                         resolved.nextProjectiles[j].position # resolved.spawnedProjectiles[k].position
             /\ leaked \cap DOMAIN resolved.damageByEnemy = {}
             /\ leaked \cap Ids(finished.enemies) = {}
             /\ \A k \in 1..Len(resolved.nextProjectiles) :
                   resolved.nextProjectiles[k].targetEnemyId \notin leaked
             /\ finished.money = state.money + Total(marching, killed, LAMBDA e : e.reward)

\* a running match whose next tick spawns an enemy, moves it into the range
\* of a tower that could not reach the spawn point, and has the tower fire
\* at it
C27_Witness ==
    /\ Running
    /\ ticks < MaxTicks
    /\ \E d \in DeltaSet :
          /\ d > 0
          /\ \E k \in 1..Len(AfterTowers(state, d).spawnedProjectiles) :
                /\ AfterTowers(state, d).spawnedProjectiles[k].targetEnemyId >= state.nextEnemyId
                /\ \A i \in 1..Len(state.towers) :
                      DistanceSquared(samplePolyline(Route, 0), cellCenter(state.towers[i].cell))
                         > getTowerStats(state.towers[i]).range * getTowerStats(state.towers[i]).range

\* the tower is not a beam tower
Shooter(tower) == getTowerStats(tower).attackKind # "beam"

\* the tower's cooldown less d, floored at 0, is <= 0 and the tower has a
\* target among the moved enemies
ReadyWithTarget(tower, moved, d) ==
    /\ Max(0, tower.cooldown - d) <= 0
    /\ \E i \in 1..Len(moved) : WithinRange(moved[i], tower)

\* the projectiles of the list that the tower fired
ShotsOf(tower, projectiles) ==
    {k \in 1..Len(projectiles) : projectiles[k].sourceTowerId = tower.id}

\* what C28 says of every non-beam tower but for the fire events: one
\* projectile locked on the target and the cooldown set to 1 / effective
\* fire rate when the tower is ready and has a target, else no projectile
\* and the cooldown only decremented
ShootsWhenReady(moved, towered, d) ==
    \A i \in 1..Len(state.towers) :
       LET tower == state.towers[i]
           shots == ShotsOf(tower, towered.spawnedProjectiles)
           target == selectTarget(moved, tower.cell, getTowerStats(tower), tower.targetMode)
       IN Shooter(tower) =>
             IF ReadyWithTarget(tower, moved, d)
             THEN /\ Cardinality(shots) = 1
                  /\ \A k \in shots : towered.spawnedProjectiles[k].targetEnemyId = moved[target].id
                  /\ towered.towers[i].cooldown = 1000000 \div getTowerStats(tower).fireRate
             ELSE /\ shots = {}
                  /\ towered.towers[i].cooldown = Max(0, tower.cooldown - d)

\* the number of towers that fire in the tick: the ready non-beam towers
\* with a target
Firing(moved, d) ==
    Cardinality({i \in 1..Len(state.towers) :
                    Shooter(state.towers[i]) /\ ReadyWithTarget(state.towers[i], moved, d)})

\* the number of beam towers with a target whose cooldown has run out
BeamsPulsing(moved, d) ==
    Cardinality({i \in 1..Len(state.towers) :
                    ~Shooter(state.towers[i]) /\ ReadyWithTarget(state.towers[i], moved, d)})

\* C28 as stated: for every non-beam tower in a tick, if its cooldown after
\* decrementing by dt (floored at 0) is <= 0 and a target exists, exactly
\* one projectile locked on that target's id is spawned, a fire event is
\* emitted, and the cooldown is set to 1 / effective fire rate; else no
\* projectile is spawned and the cooldown is only decremented.
C28_FireEventForEveryShot ==
    \A d \in BenchDeltaSet :
       Running =>
          LET moved == Moved(d)
              towered == AfterTowers(state, d)
          IN /\ ShootsWhenReady(moved, towered, d)
             /\ CountEvents(towered.events, "fire") >= Firing(moved, d)

\* C28, amended: for every non-beam tower in a tick, if its cooldown after
\* decrementing by dt (floored at 0) is <= 0 and a target exists, exactly
\* one projectile locked on that target's id is spawned, a fire event is
\* emitted while the tick's budget of 4 fire events lasts, and the
\* cooldown is set to 1 / effective fire rate; if the cooldown is > 0 or
\* there is no target, no projectile is spawned and the cooldown is only
\* decremented.
C28_ShotWhenReady ==
    \A d \in BenchDeltaSet :
       Running =>
          LET moved == Moved(d)
              towered == AfterTowers(state, d)
          IN /\ ShootsWhenReady(moved, towered, d)
             /\ Len(towered.spawnedProjectiles) = Firing(moved, d)
             /\ CountEvents(towered.events, "fire")
                   = Min(FIRE_EVENT_BUDGET, Firing(moved, d) + BeamsPulsing(moved, d))

\* a running match with five towers whose next tick has more than four of
\* them fire
C28_Witness ==
    /\ Running
    /\ ticks < MaxBenchTicks
    /\ Len(state.towers) = 5
    /\ \E d \in BenchDeltaSet : Firing(Moved(d), d) > FIRE_EVENT_BUDGET

\* the indexes of the beam towers that have a target among the moved enemies
BeamsOn(moved) ==
    {i \in 1..Len(state.towers) :
        /\ ~Shooter(state.towers[i])
        /\ \E j \in 1..Len(moved) : WithinRange(moved[j], state.towers[i])}

\* the moved enemy that the tower of index i targets
TargetOf(i, moved) ==
    moved[selectTarget(moved, state.towers[i].cell, getTowerStats(state.towers[i]),
                       state.towers[i].targetMode)]

\* the damage the beams of a tick of d add to the enemy: damage per second
\* times d for every beam tower that targets it
BeamDamageOn(enemy, moved, d) ==
    SumSeq([i \in 1..Len(state.towers) |->
               IF i \in BeamsOn(moved) /\ TargetOf(i, moved).id = enemy.id
               THEN (getTowerStats(state.towers[i]).damage * d) \div 1000
               ELSE 0])

\* C29: a beam tower with a target adds damage = damage per second x dt to
\* that target in every tick, regardless of its cooldown and of the
\* fire-event budget, never spawns a projectile, and contributes exactly
\* one beam record, from the tower to the target; the beams list returned
\* by a tick holds exactly one record per beam tower that had a target in
\* that tick and no record from an earlier tick.
C29_BeamDamage ==
    \A d \in BenchDeltaSet :
       Running =>
          LET moved == Moved(d)
              towered == AfterTowers(state, d)
              after == tickGame(state, d)
              beaming == BeamsOn(moved)
          IN /\ \A j \in 1..Len(moved) :
                   MapGet(towered.damageByEnemy, moved[j].id, 0) = BeamDamageOn(moved[j], moved, d)
             /\ \A i \in 1..Len(state.towers) :
                   ~Shooter(state.towers[i]) => ShotsOf(state.towers[i], towered.spawnedProjectiles) = {}
             /\ Len(after.beams) = Cardinality(beaming)
             /\ \A i \in 1..Len(state.towers) :
                   LET records == {k \in 1..Len(after.beams) :
                                      after.beams[k].sourceTowerId = state.towers[i].id}
                   IN IF i \in beaming
                      THEN /\ Cardinality(records) = 1
                           /\ \A k \in records :
                                 /\ after.beams[k].start = cellCenter(state.towers[i].cell)
                                 /\ after.beams[k].end = TargetOf(i, moved).position
                      ELSE records = {}

\* a running match in which five pulse towers fire ahead of a beam tower,
\* spending the budget of fire events, and the beam tower has a target and
\* a cooldown that the tick does not run out
C29_Witness ==
    /\ Running
    /\ ticks < MaxBeamTicks
    /\ \E d \in BenchDeltaSet :
          /\ Firing(Moved(d), d) > FIRE_EVENT_BUDGET
          /\ \E i \in BeamsOn(Moved(d)) : state.towers[i].cooldown - d > 0

\* the projectiles of the tick whose target is not among the moved enemies
Orphans(moved, incoming) == {k \in 1..Len(incoming) : LockedOn(incoming[k], moved) = {}}

\* C30: a projectile whose target id is not in the post-movement enemy set
\* of the current tick (the enemy died in an earlier tick or reached the
\* core) is removed in that tick without applying damage or slow and
\* without emitting any effect or event: it is absent from the returned
\* projectiles, and the damage, the slows, the impact effects and the hit
\* events of the tick are those of the projectiles that land on a target.
C30_OrphanProjectileDropped ==
    \A d \in BenchDeltaSet :
       Running =>
          LET moved == Moved(d)
              incoming == Incoming(d)
              towered == AfterTowers(state, d)
              resolved == AfterProjectiles(state, d)
              after == tickGame(state, d)
              orphans == Orphans(moved, incoming)
              landed == Cardinality(Landing(moved, incoming, d))
          IN /\ \A k \in orphans : incoming[k].id \notin Ids(after.projectiles)
             /\ Len(after.projectiles) = Len(incoming) - Cardinality(orphans) - landed
             /\ DOMAIN resolved.damageByEnemy \subseteq Ids(moved)
             /\ DOMAIN resolved.slowByEnemy \subseteq Ids(moved)
             /\ \A i \in 1..Len(moved) :
                   /\ MapGet(resolved.damageByEnemy, moved[i].id, 0)
                         = MapGet(towered.damageByEnemy, moved[i].id, 0)
                              + DamageOwed(moved[i], moved, incoming, d)
                   /\ moved[i].id \in DOMAIN resolved.slowByEnemy =>
                         \E k \in 1..Len(incoming) :
                            k \notin orphans /\ Strikes(incoming[k], moved[i], moved, d)
                               /\ incoming[k].slowDuration > 0
             /\ Len(resolved.hitEffects) = Min(IMPACT_EFFECT_BUDGET, landed)
             /\ CountEvents(after.recentEvents, "hit") = Min(HIT_EVENT_BUDGET, landed)
             /\ orphans = DOMAIN incoming /\ orphans # {} =>
                   /\ resolved.hitEffects = <<>>
                   /\ resolved.damageByEnemy = towered.damageByEnemy
                   /\ resolved.slowByEnemy = towered.slowByEnemy
                   /\ resolved.events = towered.events
                   /\ after.projectiles = <<>>

\* a running match with a projectile in flight that carries a slow and
\* whose target was killed in an earlier tick, while other enemies are on
\* the route
C30_Witness ==
    /\ Running
    /\ ticks < MaxBenchTicks
    /\ \E d \in BenchDeltaSet :
          /\ Moved(d) # <<>>
          /\ \E k \in 1..Len(state.projectiles) :
                /\ LockedOn(state.projectiles[k], Moved(d)) = {}
                /\ state.projectiles[k].slowDuration > 0

\* the projectile has its target among the moved enemies
HasLiveTarget(projectile, moved) == LockedOn(projectile, moved) # {}

\* what the projectile covers in d (mc)
TravelOf(projectile, d) == (projectile.speed * d) \div 1000

\* from is moved to to by travel along the line to goal: the step has the
\* length travel and the direction of the goal, to the milli-cell (the
\* fixed-point quotients drop less than one milli-cell on each axis)
AdvancedToward(from, to, goal, travel) ==
    LET ex == to.x - from.x
        ey == to.y - from.y
        dx == goal.x - from.x
        dy == goal.y - from.y
    IN /\ Abs(Hypot(ex, ey) - travel) <= 2
       /\ Abs(ex * dy - ey * dx) <= Abs(dx) + Abs(dy)
       /\ ex * dx >= 0
       /\ ey * dy >= 0

\* C31: every projectile with a live target, carried over or spawned in
\* this same tick, is resolved in the tick: it impacts and is removed if and
\* only if speed x dt >= its distance to the target's current position;
\* otherwise it stays in the projectile list, in order, with its position
\* advanced by speed x dt toward the target and the same target id.
C31_ProjectileResolution ==
    \A d \in BenchDeltaSet :
       Running =>
          LET moved == Moved(d)
              incoming == Incoming(d)
              resolved == AfterProjectiles(state, d)
              live == SelectSeq(incoming, LAMBDA p : HasLiveTarget(p, moved))
              flying == SelectSeq(live, LAMBDA p : ~Lands(p, moved, d))
              landing == SelectSeq(live, LAMBDA p : Lands(p, moved, d))
          IN /\ Len(resolved.nextProjectiles) = Len(flying)
             /\ \A k \in 1..Len(flying) :
                   LET before == flying[k]
                       after == resolved.nextProjectiles[k]
                       target == CHOOSE e \in LockedOn(before, moved) : TRUE
                   IN /\ after = [before EXCEPT !.position = after.position]
                      /\ AdvancedToward(before.position, after.position, target.position,
                                        TravelOf(before, d))
             /\ \A k \in 1..Len(landing) :
                   /\ landing[k].targetEnemyId \in DOMAIN resolved.damageByEnemy
                   /\ \A j \in 1..Len(resolved.nextProjectiles) :
                         resolved.nextProjectiles[j].id # landing[k].id
             /\ tickGame(state, d).projectiles = resolved.nextProjectiles

\* a state one tick of which lands a projectile carried over and leaves a
\* projectile fired in that same tick in flight, and one tick of which
\* leaves a projectile carried over in flight
C31_Witness ==
    /\ Running
    /\ ticks < MaxBenchTicks
    /\ \E d \in BenchDeltaSet :
          LET moved == Moved(d)
              incoming == Incoming(d)
          IN /\ \E k \in 1..Len(state.projectiles) :
                   HasLiveTarget(incoming[k], moved) /\ Lands(incoming[k], moved, d)
             /\ \E k \in (Len(state.projectiles) + 1)..Len(incoming) :
                   HasLiveTarget(incoming[k], moved) /\ ~Lands(incoming[k], moved, d)
    /\ \E d \in BenchDeltaSet :
          \E k \in 1..Len(state.projectiles) :
             HasLiveTarget(state.projectiles[k], Moved(d)) /\ ~Lands(state.projectiles[k], Moved(d), d)

\* the damage a tick of d accumulates against the enemy: that of the
\* projectiles that strike it and that of the beams that burn it
DamageDue(enemy, moved, incoming, d) ==
    DamageOwed(enemy, moved, incoming, d) + BeamDamageOn(enemy, moved, d)

\* the projectiles of the tick that strike the enemy
StrikesOn(enemy, moved, incoming, d) ==
    {k \in 1..Len(incoming) : Strikes(incoming[k], enemy, moved, d)}

\* C32: damage is resolved once per enemy per tick: all projectile and beam
\* damage accumulated against an enemy in the tick is subtracted from its
\* health in a single step; if the result is <= 0 the enemy is removed and
\* money is credited with its reward exactly once, otherwise it survives
\* with the reduced health; the money gained in a tick equals the sum of the
\* rewards of the enemies killed in that tick.
C32_DamageOncePerEnemy ==
    \A d \in BenchDeltaSet :
       Running =>
          LET moved == Moved(d)
              incoming == Incoming(d)
              after == tickGame(state, d)
              due == [j \in 1..Len(moved) |-> DamageDue(moved[j], moved, incoming, d)]
              dead == {j \in 1..Len(moved) : moved[j].health - due[j] <= 0}
              alive == SelectSeq([j \in 1..Len(moved) |-> j], LAMBDA j : j \notin dead)
          IN /\ Len(after.enemies) = Len(alive)
             /\ \A k \in 1..Len(alive) :
                   /\ after.enemies[k].id = moved[alive[k]].id
                   /\ after.enemies[k].health = moved[alive[k]].health - due[alive[k]]
             /\ after.money
                   = state.money + SumSeq([j \in 1..Len(moved) |-> IF j \in dead THEN moved[j].reward ELSE 0])

\* a tick in which an enemy struck by several projectiles and burnt by a
\* beam dies, and another enemy survives its damage
C32_Witness ==
    /\ Running
    /\ ticks < MaxBeamTicks
    /\ \E d \in BenchDeltaSet :
          LET moved == Moved(d)
              incoming == Incoming(d)
          IN \E a, b \in 1..Len(moved) :
                /\ Cardinality(StrikesOn(moved[a], moved, incoming, d)) > 1
                /\ BeamDamageOn(moved[a], moved, d) > 0
                /\ DamageDue(moved[a], moved, incoming, d) >= moved[a].health
                /\ DamageDue(moved[b], moved, incoming, d) > 0
                /\ DamageDue(moved[b], moved, incoming, d) < moved[b].health

\* C33: when a tick advances to a next wave that exists, it resets
\* spawnedInWave to 0 and timeUntilNextSpawn to 0 and sets timeUntilWaveStart
\* to the fixed inter-wave pause (2.5 s) plus that wave's own startDelay; so
\* no enemy of the next wave spawns before that combined delay has been
\* counted down: a tick that finds the delay positive only counts it down,
\* and a wave after the first has spawned an enemy only once it is 0.
C33_NextWaveDelay ==
    /\ (state.waveIndex > 0 /\ state.spawnedInWave > 0) => state.timeUntilWaveStart = 0
    /\ \A d \in MatchDeltaSet :
          Running =>
             LET after == tickGame(state, d)
             IN /\ (after.waveIndex # state.waveIndex /\ HasWave(Waves, after.waveIndex)) =>
                      /\ after.spawnedInWave = 0
                      /\ after.timeUntilNextSpawn = 0
                      /\ after.timeUntilWaveStart
                            = INTER_WAVE_DELAY_SECONDS + Waves[after.waveIndex + 1].startDelay
                      /\ after.timeUntilWaveStart = 2500 + Waves[after.waveIndex + 1].startDelay
                /\ (state.waveIndex > 0 /\ state.timeUntilWaveStart > 0) =>
                      /\ after.nextEnemyId = state.nextEnemyId
                      /\ after.spawnedInWave = 0
                      /\ after.timeUntilWaveStart = Max(0, state.timeUntilWaveStart - d)

\* a running match whose next tick clears the first wave and advances to
\* the second, which has a start delay of its own
C33_Witness ==
    /\ Running
    /\ ticks > 0
    /\ ticks < MaxMatchTicks
    /\ state.waveIndex = 0
    /\ \E d \in MatchDeltaSet :
          /\ tickGame(state, d).waveIndex = 1
          /\ HasWave(Waves, 1)
          /\ Waves[2].startDelay > 0
          /\ tickGame(state, d).status = "running"

\* the match is over
Finished == state.status \in {"won", "lost"}

\* every enemy on the route is, after the movement of a tick of d, either
\* gone into the core or further along the route than it was
EnemiesAdvance(d) ==
    LET moved == Moved(d)
    IN \A i \in 1..Len(state.enemies) :
          \/ state.enemies[i].id \notin Ids(moved)
          \/ \E j \in 1..Len(moved) :
                /\ moved[j].id = state.enemies[i].id
                /\ moved[j].progress > state.enemies[i].progress

\* C34: the match always ends: with the frame loop calling tickGame again
\* and again with a dt bounded below by a positive constant, and with any
\* commands interleaved, the match eventually reaches status won or lost,
\* every live enemy's progress strictly increasing in each tick until it
\* is killed or reaches the core.
C34_MatchEnds ==
    /\ [](Running => \A d \in MatchDeltaSet : EnemiesAdvance(d))
    /\ <>Finished

\* a match that ended after more ticks than the frame loop needs to spawn
\* both waves, with a command given on the way
C34_Witness ==
    /\ Finished
    /\ state.waveIndex > 0
    /\ state.nextEnemyId - 1 = ScheduleCount(Waves)
    /\ ticks > 8
    /\ commands > 0

\* the enemies the waves before the current one hold
SpawnedBefore(waveIndex) == ScheduleCount(SubSeq(Waves, 1, Min(waveIndex, Len(Waves))))

\* C35: spawn quota: in every reachable state with a current wave,
\* 0 <= spawnedInWave <= that wave's count; each wave spawns exactly count
\* enemies before waveIndex moves past it (the enemies ever created are
\* those of the waves passed and those spawned of the current one), so when
\* status is won the number of enemies ever created (nextEnemyId - 1)
\* equals the sum of the counts of all waves.
C35_SpawnQuota ==
    /\ HasWave(Waves, state.waveIndex) =>
          /\ 0 <= state.spawnedInWave
          /\ state.spawnedInWave <= Waves[state.waveIndex + 1].count
    /\ state.nextEnemyId - 1 = SpawnedBefore(state.waveIndex) + state.spawnedInWave
    /\ state.status = "won" => state.nextEnemyId - 1 = ScheduleCount(Waves)

\* a match won after both waves were spawned, the first in one tick long
\* enough for more spawns than its quota
C35_Witness ==
    /\ state.status = "won"
    /\ state.waveIndex = Len(Waves)
    /\ Len(Waves) > 1
    /\ state.nextEnemyId - 1 = ScheduleCount(Waves)
    /\ state.elapsed >= 20000

\* the cell lies on a segment between two consecutive waypoints
OnPath(cell, waypoints) ==
    \E i \in 1..(Len(waypoints) - 1) :
       LET a == waypoints[i]
           b == waypoints[i + 1]
       IN \/ /\ a.row = b.row /\ cell.row = a.row
             /\ cell.col >= Min(a.col, b.col) /\ cell.col <= Max(a.col, b.col)
          \/ /\ a.col = b.col /\ cell.col = a.col
             /\ cell.row >= Min(a.row, b.row) /\ cell.row <= Max(a.row, b.row)

\* C36: tower placement invariant: in every state reachable from
\* createInitialGameState on the shipped maps, no two towers occupy the same
\* cell, every tower's cell is inside the map bounds and not on a path
\* cell, and every tower's level is between 1 and MAX_TOWER_LEVEL.
C36_TowerPlacement ==
    LET map == loadGameMap(state.mapId)
    IN /\ \A i, j \in 1..Len(state.towers) :
             state.towers[i].cell = state.towers[j].cell => i = j
       /\ \A i \in 1..Len(state.towers) :
             /\ state.towers[i].cell.col >= 0 /\ state.towers[i].cell.col < map.cols
             /\ state.towers[i].cell.row >= 0 /\ state.towers[i].cell.row < map.rows
             /\ ~OnPath(state.towers[i].cell, map.pathWaypoints)
             /\ state.towers[i].level >= 1
             /\ state.towers[i].level <= MAX_TOWER_LEVEL

\* a match on the switchback map, after a tick, with a tower built by the
\* player next to the map's own and a tower at the top level
C36_Witness ==
    /\ state.mapId = "switchback"
    /\ Len(state.towers) = 2
    /\ \E i \in 1..Len(state.towers) : state.towers[i].level = MAX_TOWER_LEVEL
    /\ ticks > 0

\* every projectile and every beam of s comes from a tower of s
SourcesStand(s) ==
    /\ \A k \in 1..Len(s.projectiles) : s.projectiles[k].sourceTowerId \in Ids(s.towers)
    /\ \A k \in 1..Len(s.beams) : s.beams[k].sourceTowerId \in Ids(s.towers)

\* C37: source-tower integrity: in every reachable state, the sourceTowerId
\* of every in-flight projectile and of every beam is the id of a tower
\* currently in the towers list; no projectile or beam outlives the tower
\* that produced it under any interleaving of ticks and sell commands
\* (whichever tower the next command sells).
C37_SourceTowerIntegrity ==
    /\ SourcesStand(state)
    /\ \A id \in TowerIdSet : SourcesStand(sellTower(state, id))

\* a running match with a projectile in flight or a beam on the board from
\* a tower that the player built and may sell next
C37_Witness ==
    /\ Running
    /\ commands < MaxBuildCommands
    /\ ticks > 0
    /\ \E id \in TowerIdSet :
          /\ id >= 2
          /\ \/ Len(sellTower(state, id).projectiles) < Len(state.projectiles)
             \/ Len(sellTower(state, id).beams) < Len(state.beams)

\* the slow payload is one applySlow takes up
EffectiveSlow(projectile) ==
    /\ projectile.slowDuration > 0
    /\ projectile.slowMultiplier > 0
    /\ projectile.slowMultiplier < 1000

\* the enemy's slow status is well formed
SlowStatusSound(enemy) ==
    /\ 0 < enemy.slowMultiplier
    /\ enemy.slowMultiplier <= 1000
    /\ enemy.slowTimeRemaining >= 0
    /\ enemy.slowTimeRemaining = 0 => enemy.slowMultiplier = 1000

\* C38: for every enemy in every reachable state, 0 < slowMultiplier <= 1
\* and slowTimeRemaining >= 0, and slowTimeRemaining = 0 implies
\* slowMultiplier = 1; a slow payload with multiplier <= 0 or >= 1 or
\* duration <= 0 is ignored: an enemy struck in a tick by such payloads only
\* keeps the slow status its movement left it; and once the remaining time
\* decays to 0 the enemy moves at full speed in that same tick.
C38_SlowStatus ==
    /\ \A i \in 1..Len(state.enemies) : SlowStatusSound(state.enemies[i])
    /\ \A d \in ChillDeltaSet :
          Running =>
             LET marching == Marching(d)
                 moved == Moved(d)
                 incoming == Incoming(d)
                 after == tickGame(state, d)
             IN /\ \A i \in 1..Len(marching) :
                      \A j \in 1..Len(moved) :
                         (moved[j].id = marching[i].id /\ marching[i].slowTimeRemaining <= d) =>
                            /\ moved[j].slowTimeRemaining = 0
                            /\ moved[j].slowMultiplier = 1000
                            /\ moved[j].progress
                                  = marching[i].progress + (marching[i].speed * d) \div 1000
                /\ \A i \in 1..Len(moved) :
                      \A j \in 1..Len(after.enemies) :
                         (/\ after.enemies[j].id = moved[i].id
                          /\ \A k \in StrikesOn(moved[i], moved, incoming, d) :
                                ~EffectiveSlow(incoming[k])) =>
                            /\ after.enemies[j].slowMultiplier = moved[i].slowMultiplier
                            /\ after.enemies[j].slowTimeRemaining = moved[i].slowTimeRemaining

\* a tick has run, and of the next one: a payload with a duration and a
\* multiplier of 0 or of 1 and above strikes an enemy that survives it, and
\* the slow of an enemy runs out
C38_Witness ==
    /\ ticks > 0
    /\ \E d \in ChillDeltaSet :
          LET moved == Moved(d)
              incoming == Incoming(d)
              after == tickGame(state, d)
          IN \E i \in 1..Len(moved) :
                /\ \E j \in 1..Len(after.enemies) : after.enemies[j].id = moved[i].id
                /\ \E k \in StrikesOn(moved[i], moved, incoming, d) :
                      /\ incoming[k].slowDuration > 0
                      /\ ~EffectiveSlow(incoming[k])
    /\ \E d \in ChillDeltaSet :
          \E i \in 1..Len(state.enemies) :
             /\ state.enemies[i].slowTimeRemaining > 0
             /\ state.enemies[i].slowTimeRemaining <= d
             /\ \E j \in 1..Len(Moved(d)) : Moved(d)[j].id = state.enemies[i].id

\* the projectiles the towers fire in a tick of d
Fired(d) == AfterTowers(state, d).spawnedProjectiles

\* C39: firing does not catch up on a long tick: each tower spawns at most
\* one projectile per tick whatever the size of dt, so the number of
\* projectiles created in a tick never exceeds the number of towers and
\* nextProjectileId grows by at most the tower count per tick.
C39_NoFiringCatchUp ==
    \A d \in BenchDeltaSet :
       Running =>
          LET fired == Fired(d)
              after == tickGame(state, d)
          IN /\ \A i \in 1..Len(state.towers) :
                   Cardinality({k \in 1..Len(fired) :
                                   fired[k].sourceTowerId = state.towers[i].id}) <= 1
             /\ Len(fired) <= Len(state.towers)
             /\ after.nextProjectileId - state.nextProjectileId = Len(fired)
             /\ after.nextProjectileId - state.nextProjectileId <= Len(state.towers)

\* a tick has run, and in a next one that is at least two fire intervals
\* longer than a tower's cooldown that tower and another one fire
C39_Witness ==
    /\ ticks > 0
    /\ \E d \in BenchDeltaSet :
          LET fired == Fired(d)
          IN /\ Len(fired) >= 2
             /\ \E i \in 1..Len(state.towers) :
                   /\ \E k \in 1..Len(fired) : fired[k].sourceTowerId = state.towers[i].id
                   /\ d - state.towers[i].cooldown
                         >= 2 * (1000000 \div getTowerStats(state.towers[i]).fireRate)

\* C40: placing a tower and selling that same tower, with no upgrade in
\* between, returns the towers list to what it was before the placement and
\* leaves money strictly lower than before, by the cost minus the sell
\* value: buying and selling can never be used to gain money.
C40_PlaceSellRoundTrip ==
    \A cell \in SiteCells, towerTypeId \in SiteTowerTypes :
       canPlaceTower(state, cell, towerTypeId) =>
          LET placed == placeTower(state, cell, towerTypeId)
              tower == placed.towers[Len(placed.towers)]
              sold == sellTower(placed, tower.id)
          IN /\ Len(placed.towers) = Len(state.towers) + 1
             /\ tower.cell = cell
             /\ sold.towers = state.towers
             /\ sold.money = state.money - TOWER_TYPES[towerTypeId].cost + getTowerSellValue(tower)
             /\ sold.money < state.money

\* a state in which a tower was placed and sold before, other towers stand,
\* and a further tower can be placed
C40_Witness ==
    /\ Len(state.towers) >= 2
    /\ state.nextTowerId > Len(state.towers) + 1
    /\ \E cell \in SiteCells, towerTypeId \in SiteTowerTypes :
          canPlaceTower(state, cell, towerTypeId)

====
